---- MODULE Spec2Model ----
(***************************************************************************)
(* A model of the smartfeed feed-assembly engine (smartfeed/schemas.py,    *)
(* smartfeed/manager.py, smartfeed/examples/example_client.py).            *)
(*                                                                         *)
(* Conventions.                                                            *)
(*   - Python's None is the number 0 where the value is an item index or a *)
(*     parameter value, and the empty list where it is a Redis reply.      *)
(*   - An item of the example fetchers, the string "<user>_<i>", is the    *)
(*     record [src |-> method name, i |-> i]; the `after` field of a       *)
(*     NodeCursor, which the example fetchers set to the last item they    *)
(*     returned, is that item's index i (0 for None).                      *)
(*   - A cursor (FeedResultNextPage.data) is a function from node ids to   *)
(*     NodeCursor records [page, after].                                   *)
(*   - A raised exception is the `err` field of a result: "" when the call *)
(*     returned, the exception's class name when it raised.                *)
(***************************************************************************)
EXTENDS Integers, Sequences, FiniteSets, TLC

VARIABLES
    cfg,      \* the configuration node under evaluation (parsed once, immutable)
    req,      \* the inputs of the last get_data call
    res,      \* what the last get_data call returned (or raised)
    cursor,   \* the cursor the paginating client holds between calls
    hist,     \* history of the pagination: what each leaf has delivered so far
    redis,    \* the Redis store: key -> [value, ttl]
    world,    \* the items the host's live data source holds now, newest first
    stale,    \* the keys whose last SET has not reached the replica that serves GET
    pc,       \* where the view-session call in flight stands ("idle": none in flight)
    loc       \* the local variables of that call

vars == <<cfg, req, res, cursor, hist, redis, world, stale, pc, loc>>

(***************************************************************************)
(* Bounds of the model.                                                    *)
(***************************************************************************)
DataSize == 6      \* items the example fetchers' data source holds (999 in the example)
MaxLimit == 3      \* largest `limit` a request carries
MaxPage == 3       \* largest page number a submitted cursor carries
MaxCalls == 3      \* get_data calls of one pagination

(***************************************************************************)
(* Generic helpers.                                                        *)
(***************************************************************************)
Min(a, b) == IF a < b THEN a ELSE b
Max(a, b) == IF a > b THEN a ELSE b

\* Python's s[a:b] on a list, for 0 <= a (indices 0-based, b exclusive).
Slice(s, a, b) ==
    LET lo == Min(a, Len(s))
        hi == Min(Max(b, lo), Len(s))
    IN  SubSeq(s, lo + 1, hi)

\* The partial functions from subsets of D to R: Python dicts with keys in D.
Dicts(D, R) == UNION {[S -> R] : S \in SUBSET D}

EmptyDict == [k \in {} |-> 0]

\* dict.update: the entries of d2 replace or extend those of d1.
Update(d1, d2) ==
    [k \in (DOMAIN d1) \cup (DOMAIN d2) |-> IF k \in DOMAIN d2 THEN d2[k] ELSE d1[k]]

(***************************************************************************)
(* Data model: schemas.py, FeedResultNextPageInside .. FeedResultClient.   *)
(***************************************************************************)
None == 0

\* None for an Optional[int] field of the configuration.
NoInt == -1

FeedResultNextPageInside(page, after) == [page |-> page, after |-> after]

\* The NodeCursor a node reads for its own id: the entry, or {page: 1, after: None}.
CursorEntry(next_page, id) ==
    IF id \in DOMAIN next_page THEN next_page[id] ELSE FeedResultNextPageInside(1, None)

FeedResultClient(data, next_page, has_next_page) ==
    [data |-> data, next_page |-> next_page, has_next_page |-> has_next_page]

\* A FeedResult, with the model's bookkeeping: err (the exception raised, "" if
\* none), calls (the fetcher invocations made, in order), trace (the get_data
\* invocations made on child nodes, in order), cache (Redis after the call).
FeedResult(data, next_page, has_next_page, calls, trace, cache) ==
    [data |-> data, next_page |-> next_page, has_next_page |-> has_next_page,
     err |-> "", calls |-> calls, trace |-> trace, cache |-> cache]

Raised(err, calls, trace, cache) ==
    [data |-> <<>>, next_page |-> EmptyDict, has_next_page |-> FALSE,
     err |-> err, calls |-> calls, trace |-> trace, cache |-> cache]

(***************************************************************************)
(* The host's fetchers: examples/example_client.py, ClientMixerClass.      *)
(* A fetcher is handed the NodeCursor object `np` and mutates it in place; *)
(* the model returns np as the fetcher left it, together with the client   *)
(* page it returned, or raised = TRUE when it raised.                      *)
(***************************************************************************)
Item(src, i) == [src |-> src, i |-> i]

\* data = [f"{user_id}_{i}" for i in range(1, 1000)], bounded by DataSize.
ExampleData(src) == [i \in 1..DataSize |-> Item(src, i)]

example_method(src, limit, np, kwargs) ==
    LET data == ExampleData(src)
        from_index == IF np.after # None THEN np.after ELSE 0
        to_index == from_index + limit
        sliced == Slice(data, from_index, to_index)
        limit_to_return == IF "limit_to_return" \in DOMAIN kwargs
                           THEN kwargs["limit_to_return"] ELSE None
        result_data == IF limit_to_return > 0
                       THEN Slice(sliced, 0, limit_to_return) ELSE sliced
        np2 == FeedResultNextPageInside(
                   np.page + 1,
                   IF Len(result_data) > 0 THEN result_data[Len(result_data)].i ELSE None)
    IN  [raised |-> FALSE, np |-> np2, result |-> FeedResultClient(result_data, np2, TRUE)]

empty_method(src, limit, np, kwargs) ==
    LET np2 == FeedResultNextPageInside(np.page + 1, None)
    IN  [raised |-> FALSE, np |-> np2, result |-> FeedResultClient(<<>>, np2, FALSE)]

\* next_page.after = None is executed, then int(10 / 0) raises ZeroDivisionError
\* before next_page.page is assigned.
error_method(src, limit, np, kwargs) ==
    LET np2 == FeedResultNextPageInside(np.page, None)
    IN  [raised |-> TRUE, np |-> np2, result |-> FeedResultClient(<<>>, np2, FALSE)]

\* data = [1, 2, 3, 4, 3, 2, 5, 6, 4, 4, 7, 8, 9, 10, 9, 9, 9], whatever the limit;
\* the items are numbers, modelled as items with that index.
DoublesData == <<1, 2, 3, 4, 3, 2, 5, 6, 4, 4, 7, 8, 9, 10, 9, 9, 9>>

doubles_method(src, limit, np, kwargs) ==
    LET np2 == FeedResultNextPageInside(np.page + 1, None)
        data == [k \in 1..Len(DoublesData) |-> Item(src, DoublesData[k])]
    IN  [raised |-> FALSE, np |-> np2, result |-> FeedResultClient(data, np2, FALSE)]

\* data = [{"user_id": f"{user_id}_{i%10}", "value": i} for i in range(1, 1000)]
KeyMod == 10

KeyItem(src, i) == [src |-> src, i |-> i, user_id |-> i % KeyMod, value |-> i]

keys_method(src, limit, np, kwargs) ==
    LET data == [i \in 1..DataSize |-> KeyItem(src, i)]
        from_index == IF np.after # None THEN np.after ELSE 0
        sliced == Slice(data, from_index, from_index + limit)
        limit_to_return == IF "limit_to_return" \in DOMAIN kwargs
                           THEN kwargs["limit_to_return"] ELSE None
        result_data == IF limit_to_return > 0
                       THEN Slice(sliced, 0, limit_to_return) ELSE sliced
        np2 == FeedResultNextPageInside(
                   np.page + 1,
                   IF Len(result_data) > 0 THEN result_data[Len(result_data)].i ELSE None)
    IN  [raised |-> FALSE, np |-> np2, result |-> FeedResultClient(result_data, np2, TRUE)]

\* A fetcher of the example_method kind over a data source that changes while
\* sessions are served: `data` is what the source holds at the call.
live_method(data, limit, np, kwargs) ==
    LET found == {k \in 1..Len(data) : data[k].i = np.after}
        missing == np.after # None /\ found = {}
        from_index == IF np.after # None /\ found # {}
                      THEN CHOOSE k \in found : \A j \in found : k <= j
                      ELSE 0
        sliced == Slice(data, from_index, from_index + limit)
        limit_to_return == IF "limit_to_return" \in DOMAIN kwargs
                           THEN kwargs["limit_to_return"] ELSE None
        result_data == IF limit_to_return > 0
                       THEN Slice(sliced, 0, limit_to_return) ELSE sliced
        np2 == FeedResultNextPageInside(
                   np.page + 1,
                   IF Len(result_data) > 0 THEN result_data[Len(result_data)].i ELSE None)
    IN  IF missing
        THEN [raised |-> TRUE, np |-> np, result |-> FeedResultClient(<<>>, np, FALSE)]
        ELSE [raised |-> FALSE, np |-> np2, result |-> FeedResultClient(result_data, np2, TRUE)]

\* The names every example fetcher declares (inspect.getfullargspec(...).args).
MethodArgs == {"user_id", "limit", "next_page", "limit_to_return"}

\* tests/fixtures/configs.py, METHODS_DICT: method name -> fetcher.
CallMethod(method_name, limit, np, kwargs) ==
    CASE method_name = "empty" -> empty_method(method_name, limit, np, kwargs)
      [] method_name = "error" -> error_method(method_name, limit, np, kwargs)
      [] method_name = "doubles" -> doubles_method(method_name, limit, np, kwargs)
      [] method_name = "keys" -> keys_method(method_name, limit, np, kwargs)
      [] method_name = "live" -> live_method(world, limit, np, kwargs)
      [] OTHER -> example_method(method_name, limit, np, kwargs)

(***************************************************************************)
(* random.shuffle: the permutation is the caller's choice rnd (0 leaves    *)
(* the list as it is, 1 reverses it, 2 rotates it by one).                 *)
(***************************************************************************)
Reverse(s) == [k \in 1..Len(s) |-> s[Len(s) + 1 - k]]

Rotate(s) == IF Len(s) = 0 THEN s ELSE Tail(s) \o <<Head(s)>>

shuffle(s, rnd) ==
    CASE rnd = 1 -> Reverse(s)
      [] rnd = 2 -> Rotate(s)
      [] OTHER -> s

(***************************************************************************)
(* Configuration nodes (schemas.py, the pydantic models).                  *)
(***************************************************************************)
SubFeed(subfeed_id, method_name, subfeed_params, raise_error, shuffle_flag) ==
    [type |-> "subfeed", subfeed_id |-> subfeed_id, method_name |-> method_name,
     subfeed_params |-> subfeed_params, raise_error |-> raise_error,
     shuffle |-> shuffle_flag]

\* The context of one page request that every get_data hands down unchanged:
\* user_id, the Redis client ("none", "sync" or "async"), **params and the
\* outcome of random.shuffle.
Ctx(user_id, redis_client, params, rnd) ==
    [user_id |-> user_id, redis_client |-> redis_client, params |-> params, rnd |-> rnd]

(***************************************************************************)
(* SubFeed.get_data (schemas.py 1012-1077).                                *)
(***************************************************************************)
\* for arg in method_args: if arg in params: method_params[arg] = params[arg]
MethodParams(params) == [a \in MethodArgs \cap DOMAIN params |-> params[a]]

\* f(user_id=.., limit=.., next_page=.., **method_params, **self.subfeed_params)
\* raises TypeError, without running f, when a keyword is given twice or is
\* not a parameter of f.
KeywordsRejected(method_params, subfeed_params) ==
    \/ (DOMAIN method_params) \cap (DOMAIN subfeed_params) # {}
    \/ (DOMAIN subfeed_params) \cap {"user_id", "limit", "next_page"} # {}
    \/ ~((DOMAIN subfeed_params) \subseteq MethodArgs)

\* A SubFeed that hands the fetcher the caller's entry itself: what the
\* fetcher does to its NodeCursor is done to the caller's cursor.
HandedEntryItself(next_page, id, np) ==
    IF id \in DOMAIN next_page THEN [next_page EXCEPT ![id] = np] ELSE next_page

\* The caller's cursor object after the fetcher ran and left its NodeCursor
\* as np: the fetcher is handed a new FeedResultNextPageInside that holds the
\* page and after of the caller's entry (schemas.py 1034-1037), so the
\* caller's object is as it was.
Handed(next_page, id, np) == next_page

SubFeedGetData(self, limit, next_page, ctx, cache) ==
    LET subfeed_next_page == CursorEntry(next_page, self.subfeed_id)
        method_params == MethodParams(ctx.params)
        rejected == KeywordsRejected(method_params, self.subfeed_params)
        kwargs == Update(method_params, self.subfeed_params)
        out == CallMethod(self.method_name, limit, subfeed_next_page, kwargs)
        raised == rejected \/ out.raised
        calls == IF rejected THEN <<>>
                 ELSE <<[method |-> self.method_name, limit |-> limit,
                         next_page |-> subfeed_next_page, kwargs |-> kwargs,
                         raised |-> out.raised, data |-> out.result.data,
                         subfeed_id |-> self.subfeed_id,
                         left |-> Handed(next_page, self.subfeed_id, out.np)]>>
        \* except: method_result = FeedResultClient(data=[], next_page=subfeed_next_page, ..)
        \* reads the object the fetcher was handed, as the fetcher left it.
        method_result ==
            IF raised
            THEN FeedResultClient(<<>>, IF rejected THEN subfeed_next_page ELSE out.np, FALSE)
            ELSE out.result
        data == IF self.shuffle THEN shuffle(method_result.data, ctx.rnd)
                ELSE method_result.data
    IN  IF raised /\ self.raise_error
        THEN Raised(IF rejected THEN "TypeError" ELSE "ZeroDivisionError", calls, <<>>, cache)
        ELSE FeedResult(data, (self.subfeed_id :> method_result.next_page),
                        method_result.has_next_page, calls, <<>>, cache)

(***************************************************************************)
(* Merger nodes (schemas.py, the pydantic models).                         *)
(***************************************************************************)
MergerAppend(merger_id, items, shuffle_flag) ==
    [type |-> "merger_append", merger_id |-> merger_id, items |-> items,
     shuffle |-> shuffle_flag]

MergerAppendDistribute(merger_id, items, distribution_key, sorting_key, sorting_desc) ==
    [type |-> "merger_distribute", merger_id |-> merger_id, items |-> items,
     distribution_key |-> distribution_key, sorting_key |-> sorting_key,
     sorting_desc |-> sorting_desc]

\* start, end, step: NoInt stands for None.
MergerPositional(merger_id, positions, start, end, step, positional, default) ==
    [type |-> "merger_positional", merger_id |-> merger_id, positions |-> positions,
     start |-> start, end |-> end, step |-> step,
     positional |-> positional, default |-> default]

MergerPercentageItem(percentage, data) == [percentage |-> percentage, data |-> data]

MergerPercentage(merger_id, items, shuffle_flag) ==
    [type |-> "merger_percentage", merger_id |-> merger_id, items |-> items,
     shuffle |-> shuffle_flag]

MergerPercentageGradient(merger_id, item_from, item_to, step, size_to_step, shuffle_flag) ==
    [type |-> "merger_percentage_gradient", merger_id |-> merger_id,
     item_from |-> item_from, item_to |-> item_to, step |-> step,
     size_to_step |-> size_to_step, shuffle |-> shuffle_flag]

MergerViewSession(merger_id, session_size, ttl, data, deduplicate, dedup_key, shuffle_flag) ==
    [type |-> "merger_view_session", merger_id |-> merger_id,
     session_size |-> session_size, session_live_time |-> ttl,
     data |-> data, deduplicate |-> deduplicate, dedup_key |-> dedup_key,
     shuffle |-> shuffle_flag]

\* subfeed_id or merger_id: the key of the node's entry in a cursor.
NodeId(node) == IF node.type = "subfeed" THEN node.subfeed_id ELSE node.merger_id

(***************************************************************************)
(* The recursive evaluator.  GetData(node, limit, next_page, ctx, cache)   *)
(* is node.get_data(methods_dict, ctx.user_id, limit, next_page,           *)
(* ctx.redis_client, **ctx.params) run against the Redis contents `cache`. *)
(***************************************************************************)
RECURSIVE GetData(_, _, _, _, _)

\* The cursor object `next_page` that was passed to child.get_data, as the
\* call (result r) left it: a SubFeed leaves it as its fetcher call did, a
\* view session passes its child a cursor of its own, any other merger
\* passes the object on to its children, one after the other.
CursorLeft(child, r, next_page) ==
    IF child.type = "subfeed"
    THEN (IF Len(r.calls) = 0 THEN next_page ELSE r.calls[1].left)
    ELSE IF child.type = "merger_view_session" THEN next_page
    ELSE IF SelectSeq(r.trace, LAMBDA e : e.parent = NodeId(child)) = <<>> THEN next_page
    ELSE SelectSeq(r.trace, LAMBDA e : e.parent = NodeId(child))[
             Len(SelectSeq(r.trace, LAMBDA e : e.parent = NodeId(child)))].left

\* One `await child.get_data(...)` made by the node `parent`: the child's
\* result, with the invocation itself put in front of the child's trace.
\* next_page is the cursor object as the child found it, left as it left it.
Invoked(r, child, parent, limit, next_page, ctx) ==
    [r EXCEPT !.trace =
        <<[node |-> NodeId(child), parent |-> parent, limit |-> limit,
           next_page |-> next_page, redis_client |-> ctx.redis_client,
           err |-> r.err, returned |-> Len(r.data), data |-> r.data,
           has_next_page |-> r.has_next_page, out |-> r.next_page,
           left |-> CursorLeft(child, r, next_page)]>> \o r.trace]

Invoke(child, parent, limit, next_page, ctx, cache) ==
    Invoked(GetData(child, limit, next_page, ctx, cache), child, parent, limit,
            next_page, ctx)

\* The fold with has_next_page taken from the child folded in last.
FoldLastWins(acc, r) ==
    FeedResult(acc.data \o r.data, Update(acc.next_page, r.next_page),
               r.has_next_page,
               acc.calls \o r.calls, acc.trace \o r.trace, r.cache)

\* The state of a merger's result after a child's result r was folded in.
Fold(acc, r) ==
    FeedResult(acc.data \o r.data, Update(acc.next_page, r.next_page),
               acc.has_next_page \/ r.has_next_page,
               acc.calls \o r.calls, acc.trace \o r.trace, r.cache)

\* A child raised: the exception leaves the merger; what was called so far and
\* what Redis holds by then stay.
Propagate(acc, r) == Raised(r.err, acc.calls \o r.calls, acc.trace \o r.trace, r.cache)

(***************************************************************************)
(* MergerAppend.get_data (schemas.py 392-449); the same loop is            *)
(* MergerAppendDistribute.get_data (schemas.py 956-986).                   *)
(***************************************************************************)
\* if result_limit <= 0: break, with a comparison that lets a child be asked
\* for 0 items.
EnoughDataBelowZero(result_limit) == result_limit < 0

\* if result_limit <= 0: break (schemas.py 442-443, 982-983)
EnoughData(result_limit) == result_limit <= 0

RECURSIVE AppendLoop(_, _, _, _, _, _, _)
AppendLoop(self, k, result_limit, acc, limit, next_page, ctx) ==
    IF k > Len(self.items) THEN acc
    ELSE LET r == Invoke(self.items[k], self.merger_id, result_limit, next_page, ctx,
                         acc.cache)
         IN  IF r.err # "" THEN Propagate(acc, r)
             ELSE IF EnoughData(result_limit - Len(r.data)) THEN Fold(acc, r)
             ELSE AppendLoop(self, k + 1, result_limit - Len(r.data), Fold(acc, r),
                             limit, r.trace[1].left, ctx)

MergerAppendGetData(self, limit, next_page, ctx, cache) ==
    LET result == AppendLoop(self, 1, limit,
                             FeedResult(<<>>, EmptyDict, FALSE, <<>>, <<>>, cache),
                             limit, next_page, ctx)
    IN  IF result.err = "" /\ self.shuffle
        THEN [result EXCEPT !.data = shuffle(result.data, ctx.rnd)]
        ELSE result

(***************************************************************************)
(* MergerPercentage (schemas.py 601-707).                                  *)
(***************************************************************************)
\* round(a / b) with a tie rounded up.
PyRoundHalfUp(a, b) == (2 * a + b) \div (2 * b)

\* Python's round(a / b) for a >= 0, b > 0: to the nearest integer, a tie to
\* the even one.
PyRound(a, b) ==
    LET q == a \div b
        r == a % b
    IN  IF 2 * r < b THEN q
        ELSE IF 2 * r > b THEN q + 1
        ELSE IF q % 2 = 0 THEN q ELSE q + 1

MinLen(items_data) ==
    CHOOSE m \in {Len(items_data[k]) : k \in 1..Len(items_data)} :
        \A k \in 1..Len(items_data) : m <= Len(items_data[k])

SumLen(items_data) ==
    LET RECURSIVE S(_)
        S(k) == IF k = 0 THEN 0 ELSE Len(items_data[k]) + S(k - 1)
    IN  S(Len(items_data))

\* One pass of `for item_cursor in cursor`, from list k on: result and the
\* lists' "current" indices after it.
RECURSIVE MergePass(_, _, _, _, _)
MergePass(items_data, size, k, current, result) ==
    IF k > Len(items_data) THEN [current |-> current, result |-> result]
    ELSE LET items == items_data[k]
             start == current[k]
             end == IF start + size[k] < Len(items) THEN start + size[k] ELSE Len(items)
         IN  MergePass(items_data, size, k + 1, [current EXCEPT ![k] = end],
                       result \o Slice(items, start, end))

RECURSIVE MergeWhile(_, _, _, _, _)
MergeWhile(items_data, size, current, result, full_length) ==
    IF ~(Len(result) < full_length) THEN result
    ELSE LET p == MergePass(items_data, size, 1, current, result)
         IN  MergeWhile(items_data, size, p.current, p.result, full_length)

\* _merge_items_data (schemas.py 617-652); min() of no lists raises ValueError,
\* which the caller models.
MergeItemsData(items_data) ==
    LET m == MinLen(items_data)
        min_length == IF m = 0 THEN 1 ELSE m
        size == [k \in 1..Len(items_data) |-> PyRound(Len(items_data[k]), min_length)]
        current == [k \in 1..Len(items_data) |-> 0]
    IN  MergeWhile(items_data, size, current, <<>>, SumLen(items_data))

\* for item in self.items: the results of the children so far are acc (data
\* not yet merged) and items_data.
RECURSIVE PercentageLoop(_, _, _, _, _, _, _)
PercentageLoop(self, k, acc, items_data, limit, next_page, ctx) ==
    IF k > Len(self.items) THEN [acc |-> acc, items_data |-> items_data]
    ELSE LET item == self.items[k]
             r == Invoke(item.data, self.merger_id, (limit * item.percentage) \div 100,
                         next_page, ctx, acc.cache)
         IN  IF r.err # "" THEN [acc |-> Propagate(acc, r), items_data |-> items_data]
             ELSE PercentageLoop(self, k + 1, [Fold(acc, r) EXCEPT !.data = <<>>],
                                 Append(items_data, r.data), limit, r.trace[1].left, ctx)

MergerPercentageGetData(self, limit, next_page, ctx, cache) ==
    LET l == PercentageLoop(self, 1, FeedResult(<<>>, EmptyDict, FALSE, <<>>, <<>>, cache),
                            <<>>, limit, next_page, ctx)
    IN  IF l.acc.err # "" THEN l.acc
        ELSE IF Len(self.items) = 0
             THEN Raised("ValueError", l.acc.calls, l.acc.trace, l.acc.cache)
        ELSE LET data == MergeItemsData(l.items_data)
             IN  [l.acc EXCEPT !.data = IF self.shuffle THEN shuffle(data, ctx.rnd) ELSE data]

(***************************************************************************)
(* MergerPositional.get_data (schemas.py 488-585).                         *)
(***************************************************************************)
\* list(range(start, end, step)) for step >= 1.
RECURSIVE PyRange(_, _, _)
PyRange(start, end, step) ==
    IF start >= end THEN <<>> ELSE <<start>> \o PyRange(start + step, end, step)

MaxOf(s, default) ==
    IF Len(s) = 0 THEN default
    ELSE CHOOSE m \in {s[k] : k \in 1..Len(s)} : \A k \in 1..Len(s) : s[k] <= m

\* The positions of `positions` that lie in range(lo, hi + 1), each as its index
\* in that range (available_positions.index(position)), in the order given.
RECURSIVE IndicesInWindow(_, _, _)
IndicesInWindow(positions, lo, hi) ==
    IF Len(positions) = 0 THEN <<>>
    ELSE (IF Head(positions) >= lo /\ Head(positions) <= hi
          THEN <<Head(positions) - lo>> ELSE <<>>)
         \o IndicesInWindow(Tail(positions), lo, hi)

HasRange(self) == self.start # NoInt /\ self.end # NoInt /\ self.step # NoInt

\* page_positions of the page `page` (schemas.py 535-554).
PagePositions(self, page, limit) ==
    LET lo == (page - 1) * limit
        hi == page * limit
    IN  IndicesInWindow(self.positions, lo, hi)
        \o (IF HasRange(self)
            THEN IndicesInWindow(PyRange(self.start, self.end, self.step), lo, hi)
            ELSE <<>>)

\* positional_has_next_page (schemas.py 534, 544-550); max(available_positions)
\* is page * limit.
PositionalHasNextPage(self, page, limit) ==
    IF HasRange(self) THEN ~(page * limit >= self.end)
    ELSE ~(page * limit >= MaxOf(self.positions, 0))

\* Python's normalisation of the index n of s[:n] and s[n:].
PyIndex(s, n) == IF n < 0 THEN Max(Len(s) + n, 0) ELSE Min(n, Len(s))

\* data[:n] + [post] + data[n:]
InsertAt(data, n, post) ==
    SubSeq(data, 1, PyIndex(data, n)) \o <<post>> \o SubSeq(data, PyIndex(data, n) + 1, Len(data))

\* for i, post in enumerate(pos_res.data): splice post at page_positions[i] - 1.
RECURSIVE Interleave(_, _, _, _)
Interleave(data, pos_data, page_positions, i) ==
    IF i > Len(pos_data) THEN data
    ELSE Interleave(InsertAt(data, page_positions[i] - 1, pos_data[i]),
                    pos_data, page_positions, i + 1)

MergerPositionalGetData(self, limit, next_page, ctx, cache) ==
    LET empty == FeedResult(<<>>, EmptyDict, FALSE, <<>>, <<>>, cache)
        default_res == Invoke(self.default, self.merger_id, limit, next_page, ctx, cache)
        \* the merger reads its entry after the default child has returned
        own == CursorEntry(default_res.trace[1].left, self.merger_id)
        page == own.page
        page_positions == PagePositions(self, page, limit)
        pos_res == Invoke(self.positional, self.merger_id, Len(page_positions),
                          default_res.trace[1].left, ctx, default_res.cache)
        both == Fold(Fold(empty, default_res), pos_res)
        has_next_page ==
            \/ default_res.has_next_page
            \/ (PositionalHasNextPage(self, page, limit) /\ pos_res.has_next_page)
        \* {merger_id: own}, then update(default ...), update(positional ...),
        \* then the entry found under merger_id gets page += 1.
        merged == Update(Update((self.merger_id :> own), default_res.next_page),
                         pos_res.next_page)
        out_page == [merged EXCEPT ![self.merger_id].page = @ + 1]
        data == Interleave(default_res.data, pos_res.data, page_positions, 1)
    IN  IF default_res.err # "" THEN Propagate(empty, default_res)
        ELSE IF HasRange(self) /\ self.step = 0
             THEN Raised("ValueError", default_res.calls, default_res.trace, default_res.cache)
        ELSE IF pos_res.err # "" THEN Propagate(Fold(empty, default_res), pos_res)
        ELSE IF Len(pos_res.data) > Len(page_positions)
             THEN Raised("IndexError", both.calls, both.trace, both.cache)
        ELSE FeedResult(IF Len(data) > limit THEN Slice(data, 0, limit) ELSE data,
                        out_page, has_next_page, both.calls, both.trace, both.cache)

(***************************************************************************)
(* MergerPercentageGradient (schemas.py 710-886).                          *)
(***************************************************************************)
\* The body of `for i in range(size_to_step, limit * page + size_to_step,
\* size_to_step)` from the iteration i on; st holds the loop's variables.
\* iter_limit that is not cut at the end of the page.
IterLimitUncut(i, limit, page, start_position) == i - start_position

\* iter_limit (schemas.py 776)
IterLimit(i, limit, page, start_position) ==
    IF i > limit * page THEN limit * page - start_position ELSE i - start_position

RECURSIVE GradientLoop(_, _, _, _, _)
GradientLoop(self, page, limit, i, st) ==
    IF i >= limit * page + self.size_to_step THEN st
    ELSE LET change == ~st.first_iter /\ st.percentage_to < 100
             pf0 == IF change THEN st.percentage_from - self.step ELSE st.percentage_from
             pt0 == IF change THEN st.percentage_to + self.step ELSE st.percentage_to
             clamp == change /\ (pt0 > 100 \/ pf0 < 0)
             pf == IF clamp THEN 0 ELSE pf0
             pt == IF clamp THEN 100 ELSE pt0
             iter_limit == IterLimit(i, limit, page, st.start_position)
             n == Len(st.percentages)
             st1 == [st EXCEPT !.percentage_from = pf, !.percentage_to = pt,
                               !.first_iter = FALSE]
             st2 == IF ~(i > st.start_position) THEN st1
                    ELSE IF n > 0 /\ st.percentages[n].to >= 100
                    THEN [st1 EXCEPT !.start_position = i,
                                     !.limit_to = @ + iter_limit,
                                     !.percentages[n].limit = @ + iter_limit]
                    ELSE [st1 EXCEPT !.start_position = i,
                                     !.limit_from = @ + (iter_limit * pf) \div 100,
                                     !.limit_to = @ + (iter_limit * pt) \div 100,
                                     !.percentages = Append(@,
                                         [limit |-> iter_limit, from |-> pf, to |-> pt])]
         IN  GradientLoop(self, page, limit, i + self.size_to_step, st2)

\* _calculate_limits_and_percents (schemas.py 740-795)
CalculateLimitsAndPercents(self, page, limit) ==
    LET st == GradientLoop(self, page, limit, self.size_to_step,
                  [percentage_from |-> self.item_from.percentage,
                   percentage_to |-> self.item_to.percentage,
                   start_position |-> limit * (page - 1),
                   first_iter |-> TRUE,
                   limit_from |-> 0, limit_to |-> 0, percentages |-> <<>>])
    IN  [limit_from |-> st.limit_from, limit_to |-> st.limit_to,
         percentages |-> st.percentages]

\* for lp_data in limits_and_percents["percentages"] (schemas.py 856-869)
RECURSIVE GradientData(_, _, _, _, _, _)
GradientData(percentages, k, from_data, to_data, from_start_index, to_start_index) ==
    IF k > Len(percentages) THEN <<>>
    ELSE LET lp_data == percentages[k]
             from_end_index == ((lp_data.limit * lp_data.from) \div 100) + from_start_index
             to_end_index == ((lp_data.limit * lp_data.to) \div 100) + to_start_index
         IN  Slice(from_data, from_start_index, from_end_index)
             \o Slice(to_data, to_start_index, to_end_index)
             \o GradientData(percentages, k + 1, from_data, to_data,
                             from_end_index, to_end_index)

MergerPercentageGradientGetData(self, limit, next_page, ctx, cache) ==
    LET empty == FeedResult(<<>>, EmptyDict, FALSE, <<>>, <<>>, cache)
        own == CursorEntry(next_page, self.merger_id)
        limits_and_percents == CalculateLimitsAndPercents(self, own.page, limit)
        item_from == Invoke(self.item_from.data, self.merger_id,
                            limits_and_percents.limit_from, next_page, ctx, cache)
        item_to == Invoke(self.item_to.data, self.merger_id,
                          limits_and_percents.limit_to, item_from.trace[1].left, ctx,
                          item_from.cache)
        both == Fold(Fold(empty, item_from), item_to)
        data == GradientData(limits_and_percents.percentages, 1, item_from.data,
                             item_to.data, 0, 0)
        merged == Update(Update((self.merger_id :> own), item_from.next_page),
                         item_to.next_page)
        out_page == [merged EXCEPT ![self.merger_id].page = @ + 1]
    IN  IF item_from.err # "" THEN Propagate(empty, item_from)
        ELSE IF item_to.err # "" THEN Propagate(Fold(empty, item_from), item_to)
        ELSE FeedResult(IF self.shuffle THEN shuffle(data, ctx.rnd) ELSE data,
                        out_page, item_from.has_next_page \/ item_to.has_next_page,
                        both.calls, both.trace, both.cache)

(***************************************************************************)
(* MergerAppendDistribute (schemas.py 889-990).                            *)
(***************************************************************************)
\* The keys of an item that is a dict: the fields other than the model's own
\* src and i.  An item of example_method is a string and has none.
DictKeys(item) == (DOMAIN item) \ {"src", "i"}

\* sorted(data, key=lambda x: x[key], reverse=desc): stable in both directions.
RECURSIVE SortedInsert(_, _, _, _)
SortedInsert(sorted, x, key, desc) ==
    IF Len(sorted) = 0 THEN <<x>>
    ELSE LET last == sorted[Len(sorted)]
             before == IF desc THEN x[key] > last[key] ELSE x[key] < last[key]
         IN  IF before
             THEN Append(SortedInsert(SubSeq(sorted, 1, Len(sorted) - 1), x, key, desc), last)
             ELSE Append(sorted, x)

RECURSIVE Sorted(_, _, _)
Sorted(data, key, desc) ==
    IF Len(data) = 0 THEN <<>>
    ELSE SortedInsert(Sorted(SubSeq(data, 1, Len(data) - 1), key, desc),
                      data[Len(data)], key, desc)

\* grouped_entries = defaultdict(deque): the keys in insertion order and each
\* key's queue.
RECURSIVE GroupEntries(_, _, _, _)
GroupEntries(data, key, k, g) ==
    IF k > Len(data) THEN g
    ELSE LET id == data[k][key]
         IN  GroupEntries(data, key, k + 1,
                 IF id \in DOMAIN g.queue
                 THEN [g EXCEPT !.queue[id] = Append(@, data[k])]
                 ELSE [keys |-> Append(g.keys, id), queue |-> Update(g.queue, id :> <<data[k]>>)])

DeleteKey(g, id) ==
    [keys |-> SelectSeq(g.keys, LAMBDA x : x # id),
     queue |-> [x \in (DOMAIN g.queue) \ {id} |-> g.queue[x]]]

\* The buckets of grouped_entries that hold an entry.
NonEmptyBuckets(g) == {id \in DOMAIN g.queue : Len(g.queue[id]) > 0}

\* A popleft that takes two entries off the bucket and returns the first.
PopLeftTwo(queue) == IF Len(queue) > 1 THEN Tail(Tail(queue)) ELSE Tail(queue)

\* deque.popleft(): what is left of the bucket.
PopLeft(queue) == Tail(queue)

\* A drain that empties the bucket it visits.
EmitWholeBucket(d, profile_id) ==
    [d EXCEPT !.g.queue[profile_id] = <<>>,
              !.result = @ \o d.g.queue[profile_id],
              !.prev = <<profile_id>>,
              !.left = @ \o [k \in 1..Len(d.g.queue[profile_id]) |->
                               Cardinality(NonEmptyBuckets(d.g))]]

\* result.append(grouped_entries[profile_id].popleft()); prev_profile_id =
\* profile_id (schemas.py 926-927).  left records, for the entry emitted, how
\* many buckets held an entry when it was emitted.
Emit(d, profile_id) ==
    [d EXCEPT !.g.queue[profile_id] = PopLeft(@),
              !.result = Append(@, Head(d.g.queue[profile_id])),
              !.prev = <<profile_id>>,
              !.left = Append(@, Cardinality(NonEmptyBuckets(d.g)))]

\* for profile_id in list(grouped_entries.keys()): one pass over the snapshot
\* `snapshot` of the keys, from its k-th key on.  d holds grouped_entries (g),
\* result and prev_profile_id (a list: <<>> for None).  A bucket is deleted by
\* the visit that empties it, so a bucket that is visited holds an entry.
RECURSIVE DistributePass(_, _, _)
DistributePass(snapshot, k, d) ==
    IF k > Len(snapshot) THEN d
    ELSE LET profile_id == snapshot[k]
             take == d.prev # <<profile_id>> \/ Len(d.g.keys) = 1
             d1 == IF take THEN Emit(d, profile_id) ELSE d
             d2 == IF Len(d1.g.queue[profile_id]) = 0
                   THEN [d1 EXCEPT !.g = DeleteKey(d1.g, profile_id)]
                   ELSE d1
         IN  DistributePass(snapshot, k + 1, d2)

\* What one pass did: the entries it emitted and the buckets it deleted.
PassRecord(d, p) ==
    [emitted |-> Len(p.result) - Len(d.result), deleted |-> Len(d.g.keys) - Len(p.g.keys)]

\* while any(grouped_entries.values()); passes records every pass made.
RECURSIVE DistributeWhile(_)
DistributeWhile(d) ==
    IF NonEmptyBuckets(d.g) = {} THEN d
    ELSE DistributeWhile(
             [DistributePass(d.g.keys, 1, d) EXCEPT
                 !.passes = Append(@, PassRecord(d, DistributePass(d.g.keys, 1, d)))])

\* _uniform_distribute that sorts and leaves the entries where the sort put them.
UniformDistributeSortOnly(self, data) ==
    IF self.sorting_key # ""
    THEN Sorted(data, self.sorting_key, self.sorting_desc) ELSE data

\* The loop of _uniform_distribute run to its end (schemas.py 910-931):
\* sorting_key = "" stands for None.
UniformDrain(self, data) ==
    LET sorted == IF self.sorting_key # ""
                  THEN Sorted(data, self.sorting_key, self.sorting_desc) ELSE data
        g == GroupEntries(sorted, self.distribution_key, 1,
                          [keys |-> <<>>, queue |-> EmptyDict])
    IN  DistributeWhile([g |-> g, result |-> <<>>, prev |-> <<>>, left |-> <<>>,
                         passes |-> <<>>])

\* _uniform_distribute (schemas.py 910-933)
UniformDistribute(self, data) == UniformDrain(self, data).result

\* entry[key] raises for an item that is no dict or lacks the key.
Subscriptable(data, key) ==
    key = "" \/ \A k \in 1..Len(data) : key \in DictKeys(data[k])

MergerAppendDistributeGetData(self, limit, next_page, ctx, cache) ==
    LET result == AppendLoop(self, 1, limit,
                             FeedResult(<<>>, EmptyDict, FALSE, <<>>, <<>>, cache),
                             limit, next_page, ctx)
    IN  IF result.err # "" THEN result
        ELSE IF ~(Subscriptable(result.data, self.sorting_key)
                  /\ Subscriptable(result.data, self.distribution_key))
             THEN Raised("TypeError", result.calls, result.trace, result.cache)
        ELSE [result EXCEPT !.data = UniformDistribute(self, result.data)]

(***************************************************************************)
(* Redis, as far as the engine uses it: EXISTS, GET, SET [EX], EXPIRE.     *)
(* The store maps a key to [value, ttl]; ttl = NoTTL is a key that never   *)
(* expires.                                                                *)
(***************************************************************************)
NoTTL == -1

RedisExists(cache, key) == key \in DOMAIN cache

\* GET: the reply is a list, <<value>>, or <<>> for None when the key is absent.
RedisGet(cache, key) == IF key \in DOMAIN cache THEN <<cache[key].value>> ELSE <<>>

\* SET key value [EX ex]: a SET without EX leaves the key without expiration.
RedisSet(cache, key, value, ex) == Update(cache, key :> [value |-> value, ttl |-> ex])

\* EXPIRE key seconds: no effect on a key that is absent.
RedisExpire(cache, key, seconds) ==
    IF key \in DOMAIN cache THEN [cache EXCEPT ![key].ttl = seconds] ELSE cache

\* The key is dropped when its time to live runs out.
RedisDrop(cache, key) == [k \in (DOMAIN cache) \ {key} |-> cache[k]]

\* json.dumps(list) / json.loads(reply): the text is the list wrapped as a JSON
\* document; json.loads(None) raises TypeError, which the callers model.
JsonDumps(data) == [json |-> data]
JsonLoads(reply) == reply[1].json

(***************************************************************************)
(* MergerViewSession (schemas.py 110-373).                                 *)
(***************************************************************************)
\* _get_dedup_key_or_attr (schemas.py 135-157): dedup_key = "" stands for None.
\* The value is a list: <<key>>, or <<>> when item.get / getattr give None.
GetDedupKeyOrAttr(self, item) ==
    IF self.dedup_key = "" THEN <<item>>
    ELSE IF self.dedup_key \in DictKeys(item) /\ item[self.dedup_key] # None
         THEN <<item[self.dedup_key]>>
    ELSE <<>>

\* {key(item): item for item in data}: a dict keeps the place of a key's first
\* insertion and the value of its last.
RECURSIVE DedupDict(_, _, _, _)
DedupDict(self, data, k, d) ==
    IF k > Len(data) THEN d
    ELSE LET key == GetDedupKeyOrAttr(self, data[k])[1]
         IN  DedupDict(self, data, k + 1,
                 [keys |-> IF key \in DOMAIN d.value THEN d.keys ELSE Append(d.keys, key),
                  value |-> Update(d.value, key :> data[k])])

\* A variant that keeps the first item of a key instead of the last.
DedupDataKeepFirst(self, data) ==
    LET d == DedupDict(self, data, 1, [keys |-> <<>>, value |-> EmptyDict])
        first(key) == CHOOSE j \in 1..Len(data) :
                          /\ GetDedupKeyOrAttr(self, data[j])[1] = key
                          /\ \A i \in 1..(j - 1) : GetDedupKeyOrAttr(self, data[i])[1] # key
    IN  [k \in 1..Len(d.keys) |-> data[first(d.keys[k])]]

\* _dedup_data (schemas.py 159-168): list(deduplicated_data.values())
DedupData(self, data) ==
    LET d == DedupDict(self, data, 1, [keys |-> <<>>, value |-> EmptyDict])
    IN  [k \in 1..Len(d.keys) |-> d.value[d.keys[k]]]

\* The exception _dedup_data raises on data, "" when it raises none: the
\* assertion of _get_dedup_key_or_attr, or TypeError for a dict used as a key.
DedupError(self, data) ==
    IF \E k \in 1..Len(data) : GetDedupKeyOrAttr(self, data[k]) = <<>>
    THEN "AssertionError"
    ELSE IF self.dedup_key = "" /\ \E k \in 1..Len(data) : DictKeys(data[k]) # {}
         THEN "TypeError"
    ELSE ""

\* The key of the session (schemas.py 257-261); user_id is a string here, and
\* params.get("custom_view_session_key") counts when it is a non-empty string.
CacheKey(self, user_id, params) ==
    IF "custom_view_session_key" \in DOMAIN params /\ params["custom_view_session_key"] # ""
    THEN self.merger_id \o "_" \o user_id \o "_" \o params["custom_view_session_key"]
    ELSE self.merger_id \o "_" \o user_id

\* A variant that rebuilds the session only when the key is absent.
NeedsSetCacheWhenAbsent(self, exists, next_page) == ~exists

\* The condition of schemas.py 264 / 308, given the reply of EXISTS.
NeedsSetCache(self, exists, next_page) == ~exists \/ self.merger_id \notin DOMAIN next_page

\* A variant that stores the data as fetched when deduplication fails.
SessionDataUnchecked(self, r) ==
    IF r.err # "" THEN r
    ELSE [r EXCEPT !.data = IF self.deduplicate /\ DedupError(self, r.data) = ""
                             THEN DedupData(self, r.data) ELSE r.data]

\* _set_cache up to the SET (schemas.py 189-199): the child is asked for the
\* whole session with an empty cursor and without the Redis client.
SessionData(self, r) ==
    IF r.err # "" THEN r
    ELSE IF self.deduplicate /\ DedupError(self, r.data) # ""
         THEN Raised(DedupError(self, r.data), r.calls, r.trace, r.cache)
    ELSE [r EXCEPT !.data = IF self.deduplicate THEN DedupData(self, r.data) ELSE r.data]

SessionFetch(self, ctx, cache) ==
    SessionData(self, Invoke(self.data, self.merger_id, self.session_size, EmptyDict,
                             [ctx EXCEPT !.redis_client = "none"], cache))

\* A variant whose has_next_page counts a session that ends with the window.
SessionPageInclusive(self, limit, next_page, reply, calls, trace, cache) ==
    IF reply = <<>> THEN Raised("TypeError", calls, trace, cache)
    ELSE LET session_data == JsonLoads(reply)
             page == IF self.merger_id \in DOMAIN next_page
                     THEN next_page[self.merger_id].page ELSE 1
         IN  FeedResult(Slice(Slice(session_data, (page - 1) * limit, Len(session_data)),
                              0, limit),
                        (self.merger_id :> FeedResultNextPageInside(page + 1, None)),
                        Len(session_data) >= limit * page,
                        calls, trace, cache)

\* The window of the session in the reply of GET (schemas.py 270-277).
SessionPage(self, limit, next_page, reply, calls, trace, cache) ==
    IF reply = <<>> THEN Raised("TypeError", calls, trace, cache)
    ELSE LET session_data == JsonLoads(reply)
             page == IF self.merger_id \in DOMAIN next_page
                     THEN next_page[self.merger_id].page ELSE 1
         IN  FeedResult(Slice(Slice(session_data, (page - 1) * limit, Len(session_data)),
                              0, limit),
                        (self.merger_id :> FeedResultNextPageInside(page + 1, None)),
                        Len(session_data) > limit * page,
                        calls, trace, cache)

\* get_data with _get_cache / _get_cache_async run without interruption
\* (schemas.py 324-373): both clients leave the same store behind.
MergerViewSessionGetData(self, limit, next_page, ctx, cache) ==
    LET cache_key == CacheKey(self, ctx.user_id, ctx.params)
        set == NeedsSetCache(self, RedisExists(cache, cache_key), next_page)
        f == SessionFetch(self, ctx, cache)
        calls == IF set THEN f.calls ELSE <<>>
        trace == IF set THEN f.trace ELSE <<>>
        cache2 == IF set
                  THEN RedisSet(f.cache, cache_key, JsonDumps(f.data), self.session_live_time)
                  ELSE cache
        result == SessionPage(self, limit, next_page, RedisGet(cache2, cache_key),
                              calls, trace, cache2)
    IN  IF ctx.redis_client = "none" THEN Raised("ValueError", <<>>, <<>>, cache)
        ELSE IF set /\ f.err # "" THEN f
        ELSE IF result.err = "" /\ self.shuffle
             THEN [result EXCEPT !.data = shuffle(result.data, ctx.rnd)]
        ELSE result

(***************************************************************************)
(* get_data of any node: the discriminated union FeedTypes.                *)
(***************************************************************************)
GetData(node, limit, next_page, ctx, cache) ==
    CASE node.type = "subfeed" -> SubFeedGetData(node, limit, next_page, ctx, cache)
      [] node.type = "merger_append" ->
            MergerAppendGetData(node, limit, next_page, ctx, cache)
      [] node.type = "merger_distribute" ->
            MergerAppendDistributeGetData(node, limit, next_page, ctx, cache)
      [] node.type = "merger_positional" ->
            MergerPositionalGetData(node, limit, next_page, ctx, cache)
      [] node.type = "merger_percentage" ->
            MergerPercentageGetData(node, limit, next_page, ctx, cache)
      [] node.type = "merger_percentage_gradient" ->
            MergerPercentageGradientGetData(node, limit, next_page, ctx, cache)
      [] node.type = "merger_view_session" ->
            MergerViewSessionGetData(node, limit, next_page, ctx, cache)

(***************************************************************************)
(* Requests and results as the specifications below record them.           *)
(***************************************************************************)
NoReq == [kind |-> "none"]

NoRes == Raised("none", <<>>, <<>>, EmptyDict)

\* The locals of a view-session call: the key, the reply of EXISTS, the data
\* and the invocations of _set_cache, whether SET was issued, the reply of GET.
Loc(cache_key) ==
    [cache_key |-> cache_key, exists |-> FALSE, data |-> <<>>, calls |-> <<>>,
     trace |-> <<>>, wrote |-> FALSE, got |-> FALSE, reply |-> <<>>]

NoLoc == Loc("")

Request(kind, user_id, limit, next_page, redis_client, params, rnd) ==
    [kind |-> kind, user_id |-> user_id, limit |-> limit, next_page |-> next_page,
     redis_client |-> redis_client, params |-> params, rnd |-> rnd]

\* node.get_data(...) for the request r against the store.
Serve(node, r, store) ==
    GetData(node, r.limit, r.next_page, Ctx(r.user_id, r.redis_client, r.params, r.rnd),
            store)

(***************************************************************************)
(* SpecSubFeed: one SubFeed, called directly with any cursor and any       *)
(* **params, as tests/test_sub_feed.py calls it.                           *)
(***************************************************************************)
ParamValues == 1..2

SubFeedConfigs ==
    {SubFeed("subfeed_example", m, sp, re, sh) :
        m \in {"ads", "error", "empty"},
        sp \in Dicts({"limit_to_return"}, ParamValues),
        re \in BOOLEAN, sh \in BOOLEAN}

\* The cursors a caller may submit for the node id: no entry, or any entry.
CursorsFor(id) ==
    {EmptyDict} \cup
    {(id :> FeedResultNextPageInside(page, after)) : page \in 1..MaxPage, after \in 0..MaxLimit}

SubFeedInit ==
    /\ cfg \in SubFeedConfigs
    /\ req = NoReq
    /\ res = NoRes
    /\ cursor = EmptyDict
    /\ hist = <<>>
    /\ redis = EmptyDict
    /\ world = <<>>
    /\ stale = {}
    /\ pc = "idle"
    /\ loc = NoLoc

\* One call of get_data: the node keeps nothing between calls.
SubFeedCall ==
    /\ req = NoReq
    /\ \E limit \in 0..MaxLimit, next_page \in CursorsFor(cfg.subfeed_id),
          params \in Dicts({"limit_to_return", "custom_view_session_key"}, ParamValues),
          rnd \in {0, 1} :
        /\ req' = Request("subfeed", "x", limit, next_page, "none", params, rnd)
        /\ res' = Serve(cfg, req', redis)
        /\ UNCHANGED <<cfg, cursor, hist, redis, world, stale, pc, loc>>

SpecSubFeed == SubFeedInit /\ [][SubFeedCall]_vars

\* The fetcher of the last call was invoked and raised.
FetcherRaised == \E k \in 1..Len(res.calls) : res.calls[k].raised

\* C9: with raise_error = false, a call whose fetcher raises returns no data,
\* has_next_page = false and, under subfeed_id, the cursor entry the call
\* received ({page: 1, after: None} when it received none).
C9_SwallowedErrorKeepsCursor ==
    (req.kind = "subfeed" /\ ~cfg.raise_error /\ FetcherRaised)
    => /\ res.err = ""
       /\ res.data = <<>>
       /\ ~res.has_next_page
       /\ res.next_page = (cfg.subfeed_id :> CursorEntry(req.next_page, cfg.subfeed_id))

\* C10: the fetcher is called once, with the entries of **params it declares
\* overlaid with subfeed_params, the subfeed_params value winning for a name
\* that occurs in both.
C10_KeywordsAreOverlay ==
    req.kind = "subfeed"
    => /\ Len(res.calls) = 1
       /\ LET kwargs == res.calls[1].kwargs
              declared == (DOMAIN req.params) \cap MethodArgs
          IN  /\ DOMAIN kwargs = declared \cup DOMAIN cfg.subfeed_params
              /\ \A a \in DOMAIN kwargs :
                    kwargs[a] = IF a \in DOMAIN cfg.subfeed_params
                                THEN cfg.subfeed_params[a] ELSE req.params[a]

(***************************************************************************)
(* SpecFeed: a client paginates one configuration tree, submitting the     *)
(* cursor each call returned with the next call.                           *)
(***************************************************************************)
Leaf(id, method_name) == SubFeed(id, method_name, EmptyDict, TRUE, FALSE)

\* tests/fixtures/mergers.py, MERGER_APPEND_CONFIG: the first subfeed returns at
\* most limit_to_return items a call.
AppendConfig ==
    MergerAppend("merger_append_example",
        <<SubFeed("subfeed_merger_append_example", "ads",
                  ("limit_to_return" :> 1), TRUE, FALSE),
          Leaf("subfeed_2_merger_append_example", "followings")>>, FALSE)

DistributeConfig ==
    MergerAppendDistribute("merger_distribute_example",
        <<Leaf("subfeed_merger_distribute_example", "keys")>>, "user_id", "value", TRUE)

PositionalConfig ==
    MergerPositional("merger_positional_example", <<1, 3>>, 4, 9, 2,
        Leaf("subfeed_positional_merger_positional_example", "ads"),
        Leaf("subfeed_default_merger_positional_example", "followings"))

PercentageConfig(p1, p2) ==
    MergerPercentage("merger_percentage_example",
        <<MergerPercentageItem(p1, Leaf("subfeed_merger_percentage_example", "followings")),
          MergerPercentageItem(p2, Leaf("subfeed_2_merger_percentage_example", "ads"))>>,
        FALSE)

GradientConfig(p1, p2) ==
    MergerPercentageGradient("merger_percentage_gradient_example",
        MergerPercentageItem(p1, Leaf("subfeed_from_merger_percentage_gradient_example", "ads")),
        MergerPercentageItem(p2, Leaf("subfeed_to_merger_percentage_gradient_example",
                                      "followings")),
        40, 2, FALSE)

ViewSessionConfig ==
    MergerViewSession("merger_view_session_example", 4, 300,
        Leaf("subfeed_merger_view_session_example", "followings"), FALSE, "", FALSE)

\* A positional merger whose default subfeed carries the merger's own id: the
\* models do not validate that ids are unique.
SharedIdConfig ==
    MergerPositional("merger_positional_example", <<1, 3>>, NoInt, NoInt, NoInt,
        Leaf("subfeed_positional_merger_positional_example", "ads"),
        Leaf("merger_positional_example", "followings"))

FeedConfigs ==
    {Leaf("subfeed_example", "ads"), AppendConfig, DistributeConfig, PositionalConfig,
     PercentageConfig(40, 60), PercentageConfig(80, 80), GradientConfig(80, 20),
     GradientConfig(80, 80), ViewSessionConfig, SharedIdConfig}

\* The items of `data` that came from the fetcher `src`, as their indices.
RECURSIVE Contribution(_, _)
Contribution(data, src) ==
    IF Len(data) = 0 THEN <<>>
    ELSE (IF Head(data).src = src THEN <<Head(data).i>> ELSE <<>>)
         \o Contribution(Tail(data), src)

Sources == {"ads", "followings", "keys", "promo"}

\* hist: calls made so far, whether they all carried the same limit, and for
\* every fetcher the index of the last item a page has carried, before and
\* after the last call.
NoHist ==
    [calls |-> 0, same_limit |-> TRUE,
     before |-> [s \in Sources |-> 0], after |-> [s \in Sources |-> 0]]

Delivered(h, limit, last_limit, data) ==
    [calls |-> h.calls + 1,
     same_limit |-> h.same_limit /\ (h.calls = 0 \/ limit = last_limit),
     before |-> h.after,
     after |-> [s \in Sources |->
                  LET c == Contribution(data, s)
                  IN  IF Len(c) = 0 THEN h.after[s] ELSE c[Len(c)]]]

FeedInitOver(configs) ==
    /\ cfg \in configs
    /\ req = NoReq
    /\ res = NoRes
    /\ cursor = EmptyDict
    /\ hist = NoHist
    /\ redis = EmptyDict
    /\ world = <<>>
    /\ stale = {}
    /\ pc = "idle"
    /\ loc = NoLoc

\* One get_data call on the root with the cursor the client holds; the client
\* keeps the cursor the call returns.  A call that raises leaves the client's
\* cursor as it was.
GetPageOf(limits) ==
    \E limit \in limits, redis_client \in {"none", "sync"} :
        /\ hist.calls < MaxCalls
        /\ req' = Request("page", "x", limit, cursor, redis_client, EmptyDict, 0)
        /\ res' = Serve(cfg, req', redis)
        /\ redis' = res'.cache
        /\ cursor' = IF res'.err = "" THEN res'.next_page ELSE cursor
        /\ hist' = Delivered(hist, limit, IF hist.calls = 0 THEN limit ELSE req.limit,
                             res'.data)
        /\ UNCHANGED <<cfg, world, stale, pc, loc>>

GetPage == GetPageOf(0..MaxLimit)

FeedNext == GetPage

SpecFeed == FeedInitOver(FeedConfigs) /\ [][FeedNext]_vars

\* C1: a call that returns carries at most `limit` items (no fetcher of the
\* configurations returns more than the limit it is given).
C1_AtMostLimit ==
    (req.kind = "page" /\ res.err = "") => Len(res.data) <= req.limit

(***************************************************************************)
(* SpecAppend: paginating MergerAppend trees with limit >= 1.  Within the  *)
(* bounds every fetcher that is asked for at least one item has one left,  *)
(* so it continues from the `after` it is handed.                          *)
(***************************************************************************)
\* An append merger whose first child is a gradient: the number of items the
\* first child returns for one limit varies from page to page.
NestedAppendConfig ==
    MergerAppend("merger_append_example",
        <<MergerPercentageGradient("merger_percentage_gradient_example",
              MergerPercentageItem(50, Leaf("subfeed_from_merger_percentage_gradient_example",
                                            "ads")),
              MergerPercentageItem(50, Leaf("subfeed_to_merger_percentage_gradient_example",
                                            "followings")),
              50, 3, FALSE),
          Leaf("subfeed_2_merger_append_example", "promo")>>, FALSE)

AppendConfigs == {AppendConfig, NestedAppendConfig}

GetNextPage == GetPageOf(1..MaxLimit)

SpecAppend == FeedInitOver(AppendConfigs) /\ [][GetNextPage]_vars

\* C2: paginating with one limit from an empty cursor, the items every leaf
\* contributes to a page continue where the leaf's last contribution ended:
\* none repeated, none skipped.
C2_ContiguousPages ==
    (req.kind = "page" /\ hist.same_limit)
    => \A s \in Sources :
          LET c == Contribution(res.data, s)
          IN  \A k \in 1..Len(c) : c[k] = hist.before[s] + k

\* C6: a positional, gradient or view-session merger returns, under its
\* merger_id, the page of the cursor it was given plus 1 (the page given being
\* 1 when the cursor has no entry for merger_id).
C6_OwnPageAdvances ==
    (req.kind = "page" /\ res.err = ""
        /\ cfg.type \in {"merger_positional", "merger_percentage_gradient",
                         "merger_view_session"})
    => /\ cfg.merger_id \in DOMAIN res.next_page
       /\ res.next_page[cfg.merger_id].page
              = CursorEntry(req.next_page, cfg.merger_id).page + 1

(***************************************************************************)
(* SpecSession: calls of one MergerViewSession on a shared Redis, a step   *)
(* at a time.  A call runs EXISTS, then (when the session is to be built)  *)
(* the child's get_data and SET, EXPIRE after SET with the asynchronous    *)
(* client, then GET (schemas.py 257-277, 301-322).  Between the steps the  *)
(* key may expire, the live source may change, the replica may catch up    *)
(* and the task may be cancelled at an await.  "client" paginates,         *)
(* submitting the cursor it was returned; "other" is any other caller for  *)
(* the same user and key, who starts from the empty cursor.                *)
(***************************************************************************)
MaxPosts == 1

\* The live source, newest first.
LiveData == [k \in 1..DataSize |-> Item("live", DataSize + 1 - k)]

LiveSessionConfig ==
    MergerViewSession("merger_view_session_example", 4, 300,
        Leaf("subfeed_merger_view_session_example", "live"), FALSE, "", FALSE)

\* custom_view_session_key as passed in **params; "" is a call without it.
SessionKeys == {"", "k"}

SessionParams(key) == IF key = "" THEN EmptyDict ELSE ("custom_view_session_key" :> key)

\* limit, key: the page size and the custom key of the callers; calls: the calls started; first: the session the client's last call with
\* an empty cursor wrote; since then, expired: the key expired, and reset:
\* another caller's call with an empty cursor wrote the key.
NoSessionHist(limit, key) ==
    [limit |-> limit, key |-> key, calls |-> 0, first |-> <<>>, started |-> FALSE,
     expired |-> FALSE, reset |-> FALSE]

SessionInit ==
    /\ cfg = LiveSessionConfig
    /\ req = NoReq
    /\ res = NoRes
    /\ cursor = EmptyDict
    /\ hist \in {NoSessionHist(limit, key) : limit \in 1..MaxLimit, key \in SessionKeys}
    /\ redis = EmptyDict
    /\ world = LiveData
    /\ stale = {}
    /\ pc = "idle"
    /\ loc = NoLoc

\* get_data is entered (schemas.py 346-347: ValueError without a Redis client).
StartCall ==
    /\ pc = "idle"
    /\ hist.calls < MaxCalls
    /\ \E who \in {"client", "other"}, rc \in {"none", "sync", "async"} :
        /\ req' = Request("session", "x", hist.limit,
                          IF who = "client" THEN cursor ELSE EmptyDict,
                          rc, SessionParams(hist.key), 0) @@ ("who" :> who)
        /\ IF rc = "none"
           THEN /\ res' = Raised("ValueError", <<>>, <<>>, redis)
                /\ pc' = "idle"
                /\ loc' = NoLoc
           ELSE /\ res' = NoRes
                /\ pc' = "exists"
                /\ loc' = Loc(CacheKey(cfg, "x", SessionParams(hist.key)))
    /\ hist' = [hist EXCEPT !.calls = @ + 1]
    /\ UNCHANGED <<cfg, cursor, redis, world, stale>>

\* A variant that rebuilds the session on every call.
CheckCacheAlwaysSets ==
    /\ pc = "exists"
    /\ loc' = [loc EXCEPT !.exists = RedisExists(redis, loc.cache_key)]
    /\ pc' = "fetch"
    /\ UNCHANGED <<cfg, req, res, cursor, hist, redis, world, stale>>

\* redis_client.exists(cache_key) and the condition of schemas.py 264 / 308.
CheckCache ==
    /\ pc = "exists"
    /\ LET exists == RedisExists(redis, loc.cache_key)
       IN  /\ loc' = [loc EXCEPT !.exists = exists]
           /\ pc' = IF NeedsSetCache(cfg, exists, req.next_page) THEN "fetch" ELSE "get"
    /\ UNCHANGED <<cfg, req, res, cursor, hist, redis, world, stale>>

\* _set_cache up to the SET: the child's get_data, and _dedup_data.
FetchSession ==
    /\ pc = "fetch"
    /\ \E f \in {SessionFetch(cfg, Ctx(req.user_id, req.redis_client, req.params,
                                      req.rnd), redis)} :
           /\ redis' = f.cache
           /\ IF f.err # ""
              THEN /\ res' = f
                   /\ pc' = "idle"
                   /\ loc' = loc
              ELSE /\ res' = res
                   /\ pc' = "set"
                   /\ loc' = [loc EXCEPT !.data = f.data, !.calls = f.calls,
                                         !.trace = f.trace]
    /\ UNCHANGED <<cfg, req, cursor, hist, world, stale>>

\* redis_client.set: with EX in _set_cache (schemas.py 200), without in
\* _set_cache_async (schemas.py 232).  The write may not have reached the
\* replica that serves the reads that follow.
SetCache ==
    /\ pc = "set"
    /\ \E lag \in BOOLEAN :
        stale' = IF lag THEN stale \cup {loc.cache_key} ELSE stale \ {loc.cache_key}
    /\ redis' = RedisSet(redis, loc.cache_key, JsonDumps(loc.data),
                         IF req.redis_client = "async" THEN NoTTL
                         ELSE cfg.session_live_time)
    /\ pc' = IF req.redis_client = "async" THEN "expire" ELSE "get"
    /\ loc' = [loc EXCEPT !.wrote = TRUE]
    /\ hist' = IF req.who = "client" /\ cfg.merger_id \notin DOMAIN req.next_page
               THEN [hist EXCEPT !.first = loc.data, !.started = TRUE,
                                 !.expired = FALSE, !.reset = FALSE]
               ELSE IF cfg.merger_id \notin DOMAIN req.next_page
                    THEN [hist EXCEPT !.reset = TRUE]
               ELSE hist
    /\ UNCHANGED <<cfg, req, res, cursor, world>>

\* await redis_client.expire(cache_key, session_live_time) (schemas.py 233).
ExpireCache ==
    /\ pc = "expire"
    /\ redis' = RedisExpire(redis, loc.cache_key, cfg.session_live_time)
    /\ pc' = "get"
    /\ UNCHANGED <<cfg, req, res, cursor, hist, world, stale, loc>>

\* redis_client.get, json.loads and the window (schemas.py 270-277), then the
\* shuffle of get_data (schemas.py 370-371).  A read of a key whose write is
\* still on its way to the replica gives None.
GetCache ==
    /\ pc = "get"
    /\ LET reply == IF loc.cache_key \in stale THEN <<>>
                    ELSE RedisGet(redis, loc.cache_key)
           page == SessionPage(cfg, req.limit, req.next_page, reply, loc.calls,
                               loc.trace, redis)
           result == IF page.err = "" /\ cfg.shuffle
                     THEN [page EXCEPT !.data = shuffle(page.data, req.rnd)]
                     ELSE page
       IN  /\ res' = result
           /\ loc' = [loc EXCEPT !.got = TRUE, !.reply = reply]
           /\ cursor' = IF req.who = "client" /\ result.err = ""
                        THEN result.next_page ELSE cursor
    /\ pc' = "idle"
    /\ UNCHANGED <<cfg, req, hist, redis, world, stale>>

\* The task of the call is cancelled at an await: with the synchronous client
\* the only await is the child's get_data.
Cancel ==
    /\ pc # "idle"
    /\ req.redis_client = "async" \/ pc = "fetch"
    /\ res' = Raised("CancelledError", loc.calls, loc.trace, redis)
    /\ pc' = "idle"
    /\ UNCHANGED <<cfg, req, cursor, hist, redis, world, stale, loc>>

\* Redis drops a key whose time to live has run out.
KeyExpires ==
    /\ \E key \in DOMAIN redis :
        /\ redis[key].ttl # NoTTL
        /\ redis' = RedisDrop(redis, key)
        /\ hist' = [hist EXCEPT !.expired = TRUE]
    /\ UNCHANGED <<cfg, req, res, cursor, world, stale, pc, loc>>

\* The host's source gets a new first item.
WorldChanges ==
    /\ Len(world) < DataSize + MaxPosts
    /\ world' = <<Item("live", Len(world) + 1)>> \o world
    /\ UNCHANGED <<cfg, req, res, cursor, hist, redis, stale, pc, loc>>

\* The replica catches up with the writes.
Replicate ==
    /\ stale # {}
    /\ stale' = {}
    /\ UNCHANGED <<cfg, req, res, cursor, hist, redis, world, pc, loc>>

SessionNext ==
    \/ StartCall
    \/ CheckCache
    \/ FetchSession
    \/ SetCache
    \/ ExpireCache
    \/ GetCache
    \/ Cancel
    \/ KeyExpires
    \/ WorldChanges
    \/ Replicate

SpecSession == SessionInit /\ [][SessionNext]_vars

\* The last call ran to its GET: it returned, or json.loads raised.
SessionReturned == pc = "idle" /\ req.kind = "session" /\ loc.got

\* The page of the cursor the last call was given.
InputPage == CursorEntry(req.next_page, cfg.merger_id).page

\* C3 as stated: while the key has not expired, whatever other calls are made
\* on it, the window the paginating client is returned for page p is the p-th
\* window of the session its first call (the one with the empty cursor) wrote.
C3_WindowsOfFirstSession ==
    (SessionReturned /\ req.who = "client" /\ res.err = "" /\ ~hist.expired)
    => LET L == hist.first
           from == (InputPage - 1) * req.limit
           n == Max(0, Min(req.limit, Len(L) - from))
       IN  /\ Len(res.data) = n
           /\ \A k \in 1..n : res.data[k] = L[from + k]

\* C3 amended: the same, provided that no other caller's call with an empty
\* cursor has rebuilt the session since the client's first call.
C3_WindowsOfFirstSessionUnlessReset ==
    (SessionReturned /\ req.who = "client" /\ res.err = "" /\ ~hist.expired
        /\ ~hist.reset)
    => LET L == hist.first
           from == (InputPage - 1) * req.limit
           n == Max(0, Min(req.limit, Len(L) - from))
       IN  /\ Len(res.data) = n
           /\ \A k \in 1..n : res.data[k] = L[from + k]

\* The client is served a later page of its session after the source changed.
C3_Witness ==
    /\ SessionReturned /\ req.who = "client" /\ res.err = ""
    /\ ~hist.expired /\ ~hist.reset
    /\ InputPage >= 2
    /\ Len(res.data) > 0
    /\ hist.first # Slice(world, 0, cfg.session_size)

\* C4: a call invokes the child, once, with limit = session_size and an empty
\* cursor, and issues SET, exactly when EXISTS found no key or the cursor has
\* no entry for merger_id; any other call invokes no child and writes nothing.
C4_SessionBuiltIffAbsentOrReset ==
    SessionReturned
    => LET build == ~loc.exists \/ cfg.merger_id \notin DOMAIN req.next_page
       IN  /\ (loc.trace # <<>>) <=> build
           /\ loc.wrote <=> build
           /\ build => /\ Len(loc.trace) = 1
                       /\ loc.trace[1].node = NodeId(cfg.data)
                       /\ loc.trace[1].limit = cfg.session_size
                       /\ loc.trace[1].next_page = EmptyDict

\* A call with a cursor entry found the key gone and rebuilt the session.
C4_Witness ==
    /\ SessionReturned /\ res.err = ""
    /\ ~loc.exists
    /\ cfg.merger_id \in DOMAIN req.next_page
    /\ loc.wrote

C8_SurvivesReplicationDelay ==
    (SessionReturned /\ cfg.merger_id \notin DOMAIN req.next_page /\ loc.wrote
        /\ loc.reply = <<>> /\ loc.cache_key \in DOMAIN redis /\ loc.cache_key \in stale)
    => /\ res.err = ""
       /\ res.data = Slice(loc.data, 0, req.limit)
       /\ (Len(loc.data) > req.limit) => res.has_next_page

(***************************************************************************)
(* SpecDedup: a first call of a deduplicating MergerViewSession over any   *)
(* short list the source may hold: strings, and dicts that differ in the   *)
(* value under "k" and in the rest of their content (i).                   *)
(***************************************************************************)
MaxFetched == 4

DedupItems ==
    {Item("live", i) : i \in ParamValues}
        \cup {[src |-> "live", i |-> i, k |-> k] : i \in ParamValues, k \in ParamValues}
        \cup {[src |-> "live", i |-> 1, k |-> None]}

DedupConfig(dedup_key) ==
    MergerViewSession("merger_view_session_example", 3, 300,
        Leaf("subfeed_merger_view_session_example", "live"), TRUE, dedup_key, FALSE)

DedupInit ==
    /\ cfg \in {DedupConfig(dedup_key) : dedup_key \in {"", "k"}}
    /\ req = NoReq
    /\ res = NoRes
    /\ cursor = EmptyDict
    /\ hist = <<>>
    /\ redis = EmptyDict
    /\ world \in UNION {[1..n -> DedupItems] : n \in 0..MaxFetched}
    /\ stale = {}
    /\ pc = "idle"
    /\ loc = NoLoc

\* get_data with an empty cursor, run without interruption.
BuildSession ==
    /\ req = NoReq
    /\ \E limit \in 1..MaxLimit, rc \in {"sync", "async"} :
        /\ req' = Request("dedup", "x", limit, EmptyDict, rc, EmptyDict, 0)
        /\ res' = Serve(cfg, req', redis)
        /\ redis' = res'.cache
        /\ UNCHANGED <<cfg, cursor, hist, world, stale, pc, loc>>

SpecDedup == DedupInit /\ [][BuildSession]_vars

\* The data the child returned to the last call, and the list in the cache.
Fetched == res.calls[1].data

Stored == JsonLoads(RedisGet(redis, CacheKey(cfg, "x", EmptyDict)))

\* C7: the list stored has one item for each dedup key of the fetched data
\* (the item itself when dedup_key is null), in the order in which the keys
\* first occur, the item of a key being the last fetched item with that key.
C7_DedupKeepsLastInFirstOrder ==
    (req.kind = "dedup" /\ res.err = "")
    => LET key(item) == IF cfg.dedup_key = "" THEN item ELSE item[cfg.dedup_key]
           at(kk) == {j \in 1..Len(Fetched) : key(Fetched[j]) = kk}
           first(kk) == CHOOSE j \in at(kk) : \A i \in at(kk) : j <= i
           last(kk) == CHOOSE j \in at(kk) : \A i \in at(kk) : j >= i
       IN  /\ {key(Stored[a]) : a \in 1..Len(Stored)}
                  = {key(Fetched[j]) : j \in 1..Len(Fetched)}
           /\ \A a, b \in 1..Len(Stored) :
                  a < b => first(key(Stored[a])) < first(key(Stored[b]))
           /\ \A a \in 1..Len(Stored) : Stored[a] = Fetched[last(key(Stored[a]))]

\* Three dicts were fetched, the third with the key of the first: the stored
\* list starts with the third.
C7_Witness ==
    /\ req.kind = "dedup" /\ res.err = ""
    /\ cfg.dedup_key = "k"
    /\ Len(Fetched) = 3
    /\ Len(Stored) = 2
    /\ Stored[1] = Fetched[3]
    /\ Fetched[1] # Fetched[3]

(***************************************************************************)
(* SpecAppendCall: paginating a MergerAppend of one to three subfeeds,     *)
(* each the kind that returns at most one item a call, the kind that       *)
(* returns what it is asked for, or the kind that returns nothing; and the *)
(* append merger whose first child is a merger.  The limit may be 0.       *)
(***************************************************************************)
ChildIds ==
    <<"subfeed_merger_append_example", "subfeed_2_merger_append_example",
      "subfeed_3_merger_append_example">>

AppendChild(k, method_name) ==
    SubFeed(ChildIds[k], method_name,
            IF method_name = "ads" THEN ("limit_to_return" :> 1) ELSE EmptyDict,
            TRUE, FALSE)

AppendCallConfigs ==
    {NestedAppendConfig} \cup
    {MergerAppend("merger_append_example", [k \in 1..n |-> AppendChild(k, m[k])], FALSE) :
        n \in 1..3, m \in [1..3 -> {"ads", "followings", "empty"}]}

SpecAppendCall == FeedInitOver(AppendCallConfigs) /\ [][GetPage]_vars

\* The `await child.get_data(...)` the root made during the last call, in the
\* order it made them.
RootInvocations == SelectSeq(res.trace, LAMBDA e : e.parent = NodeId(cfg))

RECURSIVE ReturnedBefore(_, _)
ReturnedBefore(inv, k) == IF k <= 1 THEN 0 ELSE inv[k - 1].returned + ReturnedBefore(inv, k - 1)

RECURSIVE DataOf(_)
DataOf(inv) == IF Len(inv) = 0 THEN <<>> ELSE Head(inv).data \o DataOf(Tail(inv))

\* The children are invoked in config order, child k with the limit less what
\* the children before it returned, until the remaining limit is 0 or the
\* children are through; the data is the concatenation of theirs.
AppendsInOrder ==
    LET inv == RootInvocations
    IN  /\ Len(inv) <= Len(cfg.items)
        /\ \A k \in 1..Len(inv) :
              /\ inv[k].node = NodeId(cfg.items[k])
              /\ inv[k].limit = req.limit - ReturnedBefore(inv, k)
        /\ Len(inv) < Len(cfg.items) => req.limit - ReturnedBefore(inv, Len(inv) + 1) <= 0
        /\ res.data = DataOf(inv)

MergerOf(type, m1, m2) ==
    LET c1 == Leaf("subfeed_example", m1)
        c2 == Leaf("subfeed_2_example", m2)
    IN  CASE type = "merger_append" -> MergerAppend("merger_example", <<c1, c2>>, FALSE)
          [] type = "merger_distribute" ->
                MergerAppendDistribute("merger_example", <<c1, c2>>, "user_id", "value", TRUE)
          [] type = "merger_percentage" ->
                MergerPercentage("merger_example",
                    <<MergerPercentageItem(40, c1), MergerPercentageItem(60, c2)>>, FALSE)
          [] type = "merger_percentage_gradient" ->
                MergerPercentageGradient("merger_example", MergerPercentageItem(80, c1),
                                         MergerPercentageItem(20, c2), 40, 2, FALSE)

MergerCallConfigs ==
    {MergerOf(type, m1, m2) :
        type \in {"merger_append", "merger_distribute", "merger_percentage",
                  "merger_percentage_gradient"},
        m1 \in {"keys", "empty"}, m2 \in {"keys", "empty"}}

SpecMergerCall == FeedInitOver(MergerCallConfigs) /\ [][GetPage]_vars

\* result.next_page.data.update(item_result.next_page.data) over the invoked
\* children: the union of the cursors they returned.
RECURSIVE UnionOut(_)
UnionOut(inv) ==
    IF Len(inv) = 0 THEN EmptyDict
    ELSE Update(UnionOut(SubSeq(inv, 1, Len(inv) - 1)), inv[Len(inv)].out)

AnyHasNextPage(inv) == \E k \in 1..Len(inv) : inv[k].has_next_page

\* C12 as stated: an append, distribute, percentage or gradient merger
\* returns has_next_page = true exactly when an invoked child returned true,
\* and the returned cursor is the union of the cursors the invoked children
\* returned.
C12_CursorIsUnionOfChildren ==
    (req.kind = "page" /\ res.err = "")
    => /\ res.has_next_page <=> AnyHasNextPage(RootInvocations)
       /\ res.next_page = UnionOut(RootInvocations)

\* C12: an append, distribute, percentage or gradient merger returns
\* has_next_page = true exactly when an invoked child returned true; the
\* returned cursor is the union of the cursors the invoked children returned,
\* to which the gradient merger adds its own entry under merger_id (the page
\* it was given plus 1).
C12_CursorIsUnionOfChildrenAndOwn ==
    (req.kind = "page" /\ res.err = "")
    => /\ res.has_next_page <=> AnyHasNextPage(RootInvocations)
       /\ res.next_page =
            IF cfg.type = "merger_percentage_gradient"
            THEN Update(UnionOut(RootInvocations),
                        cfg.merger_id :>
                            [CursorEntry(req.next_page, cfg.merger_id) EXCEPT !.page = @ + 1])
            ELSE UnionOut(RootInvocations)

\* An append merger invoked both children; only the first reported a next
\* page, and the cursor holds the entries of both.
C12_Witness ==
    /\ req.kind = "page" /\ res.err = ""
    /\ cfg.type = "merger_append"
    /\ Len(RootInvocations) = 2
    /\ RootInvocations[1].has_next_page
    /\ ~RootInvocations[2].has_next_page
    /\ res.has_next_page
    /\ DOMAIN res.next_page = {"subfeed_example", "subfeed_2_example"}

(***************************************************************************)
(* SpecDistribute: one call of a MergerAppendDistribute over any short     *)
(* list of entries the source may hold, entry k with any of three values   *)
(* under the distribution key and k under the sorting key; the merger      *)
(* sorts by no key, ascending or descending.                               *)
(***************************************************************************)
MaxEntries == 5

DistributionKeys == 1..3

Entries(keys) == [k \in 1..Len(keys) |-> [src |-> "live", i |-> k, user_id |-> keys[k], value |-> k]]

DistributeOver(sorting_key, sorting_desc) ==
    MergerAppendDistribute("merger_distribute_example",
        <<Leaf("subfeed_merger_distribute_example", "live")>>, "user_id",
        sorting_key, sorting_desc)

DistributeInit ==
    /\ cfg \in {DistributeOver("", FALSE), DistributeOver("value", FALSE),
                DistributeOver("value", TRUE)}
    /\ req = NoReq
    /\ res = NoRes
    /\ cursor = EmptyDict
    /\ hist = <<>>
    /\ redis = EmptyDict
    /\ world \in {Entries(keys) : keys \in UNION {[1..n -> DistributionKeys] : n \in 0..MaxEntries}}
    /\ stale = {}
    /\ pc = "idle"
    /\ loc = NoLoc

\* get_data with an empty cursor; hist holds the run of _uniform_distribute
\* over the data the child returned.
DistributeCall ==
    /\ req = NoReq
    /\ \E limit \in 0..MaxEntries :
        /\ req' = Request("distribute", "x", limit, EmptyDict, "none", EmptyDict, 0)
        /\ res' = Serve(cfg, req', redis)
        /\ hist' = UniformDrain(cfg, res'.trace[1].data)
        /\ UNCHANGED <<cfg, cursor, redis, world, stale, pc, loc>>

SpecDistribute == DistributeInit /\ [][DistributeCall]_vars

\* data[k][distribution_key] of the page returned.
PageKey(k) == res.data[k][cfg.distribution_key]

\* C13 as stated: in a page with more than one distinct distribution_key
\* value no two adjacent items have the same value.
C13_NoAdjacentEqualKeys ==
    (req.kind = "distribute" /\ res.err = "")
    => (Cardinality({PageKey(k) : k \in 1..Len(res.data)}) > 1
        => \A k \in 1..(Len(res.data) - 1) : PageKey(k) # PageKey(k + 1))

\* C13: in a page returned by MergerAppendDistribute two adjacent items have
\* the same distribution_key value only where one bucket is left: every item
\* after them in the page has that value too.
C13_AdjacentEqualKeysOnlyAtTheEnd ==
    (req.kind = "distribute" /\ res.err = "")
    => \A k \in 1..(Len(res.data) - 1) :
          PageKey(k) = PageKey(k + 1)
          => \A j \in (k + 1)..Len(res.data) : PageKey(j) = PageKey(k)

\* The source held three entries of one key, then one of a second and one of a
\* third: the page alternates while it can and ends with two of the first key.
C13_Witness ==
    /\ req.kind = "distribute" /\ res.err = ""
    /\ cfg.sorting_key = ""
    /\ Len(res.data) = 5
    /\ [k \in 1..5 |-> world[k].user_id] = <<1, 1, 1, 2, 3>>
    /\ [k \in 1..5 |-> PageKey(k)] = <<1, 2, 3, 1, 1>>

(***************************************************************************)
(* SpecPositional: one call of a MergerPositional for any page, over any   *)
(* configuration the validator accepts: up to two positions in any order,  *)
(* with or without start / end / step; the default child returns what the  *)
(* source holds (has_next_page = True) or nothing (False), the positional  *)
(* child what it is asked for (True) or nothing (False).                   *)
(***************************************************************************)
MaxPosition == 6

PositionLists ==
    {ps \in UNION {[1..n -> 1..MaxPosition] : n \in 0..2} :
        \A a, b \in 1..Len(ps) : a # b => ps[a] # ps[b]}

PositionRanges ==
    {<<NoInt, NoInt, NoInt>>} \cup {<<4, end, step>> : end \in {6, 7}, step \in {1, 2}}

\* validate_merger_positional (schemas.py 476-486)
ValidateMergerPositional(values) ==
    /\ ~(Len(values.positions) = 0 /\ ~HasRange(values))
    /\ (values.start # NoInt /\ Len(values.positions) > 0)
            => ~(values.start <= MaxOf(values.positions, 0))
    /\ (values.start # NoInt /\ values.end # NoInt) => ~(values.end <= values.start)

PositionalConfigs ==
    {c \in {MergerPositional("merger_positional_example", ps, r[1], r[2], r[3],
                Leaf("subfeed_positional_merger_positional_example", pm),
                Leaf("subfeed_default_merger_positional_example", dm)) :
              ps \in PositionLists, r \in PositionRanges,
              pm \in {"ads", "empty"}, dm \in {"live", "empty"}} :
        ValidateMergerPositional(c)}

PositionalInit ==
    /\ cfg \in PositionalConfigs
    /\ req = NoReq
    /\ res = NoRes
    /\ cursor = EmptyDict
    /\ hist = <<>>
    /\ redis = EmptyDict
    /\ world \in {SubSeq(LiveData, 1, n) : n \in 0..MaxLimit}
    /\ stale = {}
    /\ pc = "idle"
    /\ loc = NoLoc

\* get_data with a cursor that holds no entry or the merger's page.
PositionalCall ==
    /\ req = NoReq
    /\ \E limit \in 0..MaxLimit,
          next_page \in {EmptyDict} \cup
              {(cfg.merger_id :> FeedResultNextPageInside(page, None)) : page \in 1..MaxPage} :
        /\ req' = Request("positional", "x", limit, next_page, "none", EmptyDict, 0)
        /\ res' = Serve(cfg, req', redis)
        /\ UNCHANGED <<cfg, cursor, hist, redis, world, stale, pc, loc>>

SpecPositional == PositionalInit /\ [][PositionalCall]_vars

\* What the default and the positional child returned to the last call, and
\* the page_positions of the call.
DefaultRes == RootInvocations[1]

PosRes == RootInvocations[2]

CallPagePositions == PagePositions(cfg, InputPage, req.limit)

\* C14: the j-th item the positional child returned is in the page at list
\* index page_positions[j] - 1 (0-based), whatever the order of the
\* configured positions, the page and the length of the default data.
C14_PositionalItemsAtPagePositions ==
    (req.kind = "positional" /\ res.err = "")
    => \A j \in 1..Len(PosRes.data) :
          /\ CallPagePositions[j] \in 1..Len(res.data)
          /\ res.data[CallPagePositions[j]] = PosRes.data[j]

\* C15: has_next_page is true exactly when the default child reports true, or
\* the positional child reports true and the last position of the page
\* window, page * limit, is smaller than the greatest configured position,
\* max(positions + [end - 1]).
C15_HasNextPageWhilePositionsRemain ==
    (req.kind = "positional" /\ res.err = "")
    => LET greatest == IF HasRange(cfg)
                       THEN Max(MaxOf(cfg.positions, 0), cfg.end - 1)
                       ELSE MaxOf(cfg.positions, 0)
       IN  res.has_next_page
             <=> \/ DefaultRes.has_next_page
                 \/ PosRes.has_next_page /\ InputPage * req.limit < greatest

\* C16: when the default child returns no items the page is the positional
\* child's items in the order the child returned them, truncated to limit.
C16_EmptyDefaultGivesPositionalItems ==
    (req.kind = "positional" /\ res.err = "" /\ Len(DefaultRes.data) = 0)
    => res.data = Slice(PosRes.data, 0, req.limit)

(***************************************************************************)
(* SpecPercentage: one call of a MergerPercentage of two or three          *)
(* subfeeds, each returning what it is asked for or at most                *)
(* limit_to_return items, for any limit up to MaxBlendLimit.               *)
(***************************************************************************)
MaxBlendLimit == 10

Capped(id, method_name, limit_to_return) ==
    SubFeed(id, method_name,
            IF limit_to_return = 0 THEN EmptyDict ELSE ("limit_to_return" :> limit_to_return),
            TRUE, FALSE)

BlendConfigs ==
    {MergerPercentage("merger_percentage_example",
         <<MergerPercentageItem(p[1], Capped("subfeed_merger_percentage_example",
                                             "followings", r1)),
           MergerPercentageItem(p[2], Capped("subfeed_2_merger_percentage_example",
                                             "ads", r2))>>, FALSE) :
        p \in {<<40, 60>>, <<30, 70>>, <<70, 30>>}, r1 \in 0..2, r2 \in 0..2}
    \cup
    {MergerPercentage("merger_percentage_example",
         <<MergerPercentageItem(20, Leaf("subfeed_merger_percentage_example", "followings")),
           MergerPercentageItem(30, Leaf("subfeed_2_merger_percentage_example", "ads")),
           MergerPercentageItem(50, Leaf("subfeed_3_merger_percentage_example", "promo"))>>,
         FALSE)}

\* get_data with an empty cursor.
BlendCall ==
    /\ req = NoReq
    /\ \E limit \in 0..MaxBlendLimit :
        /\ req' = Request("percentage", "x", limit, EmptyDict, "none", EmptyDict, 0)
        /\ res' = Serve(cfg, req', redis)
        /\ UNCHANGED <<cfg, cursor, hist, redis, world, stale, pc, loc>>

SpecPercentage == FeedInitOver(BlendConfigs) /\ [][BlendCall]_vars

\* The nearest integer to a / b, the even one of two that are equally near.
NearestToEven(a, b) ==
    CHOOSE q \in 0..(a + 1) :
        /\ 2 * a - b <= 2 * q * b
        /\ 2 * q * b <= 2 * a + b
        /\ (2 * q * b = 2 * a - b \/ 2 * q * b = 2 * a + b) => q % 2 = 0

\* The round-robin blend of the lists `lists`: pass after pass over the lists
\* in order, a pass emitting the next size[i] items of list i.
RoundRobinBlend(lists) ==
    LET n == Len(lists)
        least == CHOOSE m \in {Len(lists[i]) : i \in 1..n} : \A i \in 1..n : m <= Len(lists[i])
        size == [i \in 1..n |-> NearestToEven(Len(lists[i]), Max(1, least))]
        RECURSIVE Chunks(_, _)
        Chunks(pass, i) ==
            IF i > n THEN <<>>
            ELSE SubSeq(lists[i], pass * size[i] + 1, Min((pass + 1) * size[i], Len(lists[i])))
                 \o Chunks(pass, i + 1)
        RECURSIVE Passes(_)
        Passes(pass) ==
            IF \A i \in 1..n : pass * size[i] >= Len(lists[i]) THEN <<>>
            ELSE Chunks(pass, 1) \o Passes(pass + 1)
    IN  Passes(0)

MaxSizeToStep == 4

\* validate_merger_percentage_gradient (schemas.py 732-738)
ValidateMergerPercentageGradient(values) ==
    /\ ~(values.step < 1 \/ values.step > 100)
    /\ ~(values.size_to_step < 1)

ScheduleConfigs ==
    {c \in {MergerPercentageGradient("merger_percentage_gradient_example",
                MergerPercentageItem(p[1],
                    Leaf("subfeed_from_merger_percentage_gradient_example", "ads")),
                MergerPercentageItem(p[2],
                    Leaf("subfeed_to_merger_percentage_gradient_example", "followings")),
                step, size_to_step, FALSE) :
              p \in {<<80, 20>>, <<70, 30>>, <<50, 50>>, <<0, 100>>},
              step \in {0, 10, 40, 100}, size_to_step \in 0..MaxSizeToStep} :
        ValidateMergerPercentageGradient(c)}

\* get_data for the page the cursor names.
ScheduleCall ==
    /\ req = NoReq
    /\ \E limit \in 1..MaxBlendLimit, page \in 1..MaxPage :
        /\ req' = Request("gradient", "x", limit,
                          (cfg.merger_id :> FeedResultNextPageInside(page, None)),
                          "none", EmptyDict, 0)
        /\ res' = Serve(cfg, req', redis)
        /\ hist' = CalculateLimitsAndPercents(cfg, page, limit)
        /\ UNCHANGED <<cfg, cursor, redis, world, stale, pc, loc>>

SpecSchedule == FeedInitOver(ScheduleConfigs) /\ [][ScheduleCall]_vars

\* The sum of the buckets' limits.
RECURSIVE SumOfLimits(_)
SumOfLimits(percentages) ==
    IF Len(percentages) = 0 THEN 0 ELSE Head(percentages).limit + SumOfLimits(Tail(percentages))

\* C18: for every page >= 1 and limit >= 1 the limits of the buckets of
\* _calculate_limits_and_percents(page, limit) sum to exactly limit when
\* size_to_step divides limit; when it does not, the schedule is cut at the
\* end of the page and the sum does not exceed limit.
C18_BucketLimitsSumToLimit ==
    req.kind = "gradient"
    => /\ req.limit % cfg.size_to_step = 0 => SumOfLimits(hist.percentages) = req.limit
       /\ req.limit % cfg.size_to_step # 0 => SumOfLimits(hist.percentages) <= req.limit

\* Page 2 of limit 3 with size_to_step 2: the buckets of the page have the
\* limits 1 and 2.
C18_Witness ==
    /\ req.kind = "gradient"
    /\ req.limit = 3
    /\ InputPage = 2
    /\ cfg.size_to_step = 2
    /\ Len(hist.percentages) = 2
    /\ hist.percentages[1].limit = 1
    /\ hist.percentages[2].limit = 2

(***************************************************************************)
(* FeedManager (manager.py).  FeedConfig.parse_obj keeps the fields the    *)
(* model FeedConfig declares, version and feed (schemas.py 1092-1093);     *)
(* reading any other attribute of the parsed object raises AttributeError. *)
(***************************************************************************)
FeedConfigFields == {"version", "feed"}

FeedConfigParse(config) == [f \in FeedConfigFields |-> config[f]]

HasAttr(obj, name) == name \in DOMAIN obj

\* FeedManager.__init__ (manager.py 14-27): the manager, or the exception.
FeedManagerNew(config, redis_client) ==
    [feed_config |-> FeedConfigParse(config), redis_client |-> redis_client,
     err |-> IF ~HasAttr(FeedConfigParse(config), "view_session") THEN "AttributeError"
             ELSE IF FeedConfigParse(config).view_session /\ redis_client = "none"
                  THEN "ValueError"
             ELSE ""]

\* FeedManager._get_cache (manager.py 71-80): the window of the cached list.
FeedManagerPage(session_data, page, limit, calls, trace, cache) ==
    FeedResult(Slice(Slice(session_data, (page - 1) * limit, Len(session_data)), 0, limit),
               ("session_feed_data" :> FeedResultNextPageInside(page + 1, None)),
               Len(session_data) > limit * page, calls, trace, cache)

\* FeedManager._set_cache (manager.py 29-46), after the feed returned `built`,
\* and the read that follows it.
FeedManagerSetCache(self, built, user_id, limit, page) ==
    IF built.err # "" THEN built
    ELSE FeedManagerPage(built.data, page, limit, built.calls, built.trace,
                         RedisSet(built.cache, user_id, JsonDumps(built.data),
                                  self.feed_config.session_live_time))

\* FeedManager._get_cache (manager.py 48-80): the whole feed is cached under
\* the key user_id and paged under "session_feed_data".
FeedManagerGetCache(self, user_id, limit, next_page, params, cache) ==
    IF RedisExists(cache, user_id)
    THEN FeedManagerPage(JsonLoads(RedisGet(cache, user_id)),
                         CursorEntry(next_page, "session_feed_data").page, limit,
                         <<>>, <<>>, cache)
    ELSE IF ~HasAttr(self.feed_config, "session_size")
         THEN Raised("AttributeError", <<>>, <<>>, cache)
    ELSE FeedManagerSetCache(self,
             GetData(self.feed_config.feed, self.feed_config.session_size, EmptyDict,
                     Ctx(user_id, "none", params, 0), cache),
             user_id, limit, CursorEntry(next_page, "session_feed_data").page)

\* FeedManager.get_data (manager.py 82-108)
FeedManagerGetData(self, user_id, limit, next_page, params, cache) ==
    IF ~HasAttr(self.feed_config, "view_session")
    THEN Raised("AttributeError", <<>>, <<>>, cache)
    ELSE IF self.feed_config.view_session
         THEN (IF self.redis_client = "none" THEN Raised("ValueError", <<>>, <<>>, cache)
               ELSE FeedManagerGetCache(self, user_id, limit, next_page, params, cache))
    ELSE GetData(self.feed_config.feed, limit, next_page,
                 Ctx(user_id, "none", params, 0), cache)

(***************************************************************************)
(* SpecManager: a host builds a FeedManager from a configuration dict      *)
(* (with or without the keys the docstring of FeedConfig names), with or   *)
(* without a Redis client, and asks it for the first page.                 *)
(***************************************************************************)
ManagerConfigs ==
    {[version |-> "1", feed |-> feed] @@ extra :
        feed \in FeedConfigs \ {SharedIdConfig},
        extra \in {EmptyDict, ("view_session" :> FALSE),
                   ("view_session" :> TRUE) @@ ("session_size" :> 4)
                       @@ ("session_live_time" :> 300)}}

\* FeedManager(config, methods_dict, redis_client), then get_data on it; the
\* exception of the constructor reaches the host in place of a page.
ManagerServe ==
    /\ req = NoReq
    /\ \E limit \in 0..MaxLimit, redis_client \in {"none", "sync"} :
        \E manager \in {FeedManagerNew(cfg, redis_client)} :
            /\ req' = Request("manager", "x", limit, EmptyDict, redis_client, EmptyDict, 0)
            /\ res' = IF manager.err # "" THEN Raised(manager.err, <<>>, <<>>, redis)
                      ELSE FeedManagerGetData(manager, "x", limit, EmptyDict, EmptyDict, redis)
            /\ redis' = res'.cache
            /\ UNCHANGED <<cfg, cursor, hist, world, stale, pc, loc>>

SpecManager == FeedInitOver(ManagerConfigs) /\ [][ManagerServe]_vars

\* C19: for a valid configuration the manager is built and its get_data
\* returns what the root node's get_data returns with the manager's fetchers
\* and the manager's Redis client.
C19_ManagerServesRoot ==
    req.kind = "manager"
    => LET root == Serve(cfg.feed, req, EmptyDict)
       IN  /\ res.err = root.err
           /\ res.data = root.data
           /\ res.next_page = root.next_page
           /\ res.has_next_page = root.has_next_page

\* C20: no session key is in Redis without a TTL, on the synchronous or the
\* asynchronous client path, a cancelled or failed request included.
C20_EveryKeyHasTTL ==
    \A key \in DOMAIN redis : redis[key].ttl # NoTTL

(***************************************************************************)
(* The drain of _uniform_distribute, observed over SpecDistribute: hist is *)
(* the run of the loop over the data the child returned to the last call.  *)
(***************************************************************************)
\* The entries _uniform_distribute was handed by the last call.
DrainInput == RootInvocations[1].data

\* C21: in the output of the round-robin drain two adjacent items have the
\* same distribution_key value only if, when the second of them was emitted,
\* its bucket was the only bucket that held an entry: every entry not yet
\* emitted had that value.
C21_AdjacentEqualOnlyWhenOneBucketLeft ==
    (req.kind = "distribute" /\ res.err = "")
    => /\ res.data = hist.result
       /\ \A k \in 1..(Len(res.data) - 1) :
             PageKey(k) = PageKey(k + 1)
             => /\ hist.left[k + 1] = 1
                /\ \A j \in 1..Len(DrainInput) :
                      DrainInput[j] \notin {res.data[m] : m \in 1..k}
                      => DrainInput[j][cfg.distribution_key] = PageKey(k + 1)

\* Sorted by value, descending, the entries have the keys 1, 2, 2, 2: the
\* first two were emitted with two buckets left, the last two with one.
C21_Witness ==
    /\ req.kind = "distribute" /\ res.err = ""
    /\ cfg.sorting_key = "value" /\ cfg.sorting_desc
    /\ Len(res.data) = 4
    /\ [k \in 1..4 |-> PageKey(k)] = <<1, 2, 2, 2>>
    /\ hist.left = <<2, 1, 1, 1>>

\* C22: the drain loop ends for every finite list: every pass over the
\* buckets emits an entry or deletes a bucket, and when the loop has ended
\* no bucket holds an entry and every entry of the input has been emitted
\* exactly once.
C22_DrainEndsWithEveryEntryOnce ==
    (req.kind = "distribute" /\ res.err = "")
    => /\ \A p \in 1..Len(hist.passes) :
             hist.passes[p].emitted >= 1 \/ hist.passes[p].deleted >= 1
       /\ NonEmptyBuckets(hist.g) = {}
       /\ res.data = hist.result
       /\ Len(res.data) = Len(DrainInput)
       /\ \A j \in 1..Len(DrainInput) :
             Cardinality({k \in 1..Len(res.data) : res.data[k] = DrainInput[j]}) = 1

\* Five entries in two buckets, of four and one: the loop made four passes,
\* the first emitted two entries and deleted a bucket.
C22_Witness ==
    /\ req.kind = "distribute" /\ res.err = ""
    /\ Len(DrainInput) = 5
    /\ Len(hist.passes) = 4
    /\ hist.passes[1] = [emitted |-> 2, deleted |-> 1]
    /\ hist.passes[4] = [emitted |-> 1, deleted |-> 1]

(***************************************************************************)
(* SpecGradient: one get_data call of a MergerPercentageGradient for any   *)
(* page and limit, with a cursor that may hold entries of the children;    *)
(* the configurations are those the validator accepts out of a few         *)
(* percentages (pairs that add up to 100 and pairs that do not), steps and *)
(* every size_to_step up to MaxSizeToStep.                                 *)
(***************************************************************************)
GradientPercentages ==
    {<<80, 20>>, <<50, 50>>, <<0, 100>>, <<80, 80>>, <<50, 70>>, <<50, 100>>, <<20, 60>>}

GradientCallConfigs ==
    {c \in {MergerPercentageGradient("merger_percentage_gradient_example",
                MergerPercentageItem(p[1],
                    Leaf("subfeed_from_merger_percentage_gradient_example", "ads")),
                MergerPercentageItem(p[2],
                    Leaf("subfeed_to_merger_percentage_gradient_example", "followings")),
                step, size_to_step, FALSE) :
              p \in GradientPercentages, step \in {0, 30, 50}, size_to_step \in 0..MaxSizeToStep} :
        ValidateMergerPercentageGradient(c)}

\* get_data for the page the cursor names; the cursor may hold the `after` of
\* the children.
GradientCall ==
    /\ req = NoReq
    /\ \E limit \in 1..MaxBlendLimit, page \in 1..MaxPage, after \in {None, 1} :
        /\ req' = Request("gradient", "x", limit,
                          Update((cfg.merger_id :> FeedResultNextPageInside(page, None)),
                                 IF after = None THEN EmptyDict
                                 ELSE (NodeId(cfg.item_from.data) :>
                                           FeedResultNextPageInside(2, after))
                                      @@ (NodeId(cfg.item_to.data) :>
                                           FeedResultNextPageInside(2, after + 1))),
                          "none", EmptyDict, 0)
        /\ res' = Serve(cfg, req', redis)
        /\ UNCHANGED <<cfg, cursor, hist, redis, world, stale, pc, loc>>

SpecGradient == FeedInitOver(GradientCallConfigs) /\ [][GradientCall]_vars

\* x clamped to 0 and 100.
ClampPercent(x) == Max(0, Min(100, x))

\* The page the blocks of size_to_step positions give: the part of the k-th
\* block that lies in the page window (lo, hi] takes the next
\* floor(n * from_k / 100) items of from_data and then the next
\* floor(n * to_k / 100) items of to_data.
RECURSIVE BlockPage(_, _, _, _, _, _, _, _)
BlockPage(self, k, lo, hi, from_data, to_data, from_index, to_index) ==
    IF (k - 1) * self.size_to_step >= hi THEN <<>>
    ELSE LET n == Min(k * self.size_to_step, hi) - Max((k - 1) * self.size_to_step, lo)
             from_k == ClampPercent(self.item_from.percentage - (k - 1) * self.step)
             to_k == ClampPercent(self.item_to.percentage + (k - 1) * self.step)
             from_n == IF n > 0 THEN (n * from_k) \div 100 ELSE 0
             to_n == IF n > 0 THEN (n * to_k) \div 100 ELSE 0
         IN  Slice(from_data, from_index, from_index + from_n)
             \o Slice(to_data, to_index, to_index + to_n)
             \o BlockPage(self, k + 1, lo, hi, from_data, to_data,
                          from_index + from_n, to_index + to_n)

RebuildItems ==
    {Item("live", 1), [src |-> "live", i |-> 1, k |-> 1], [src |-> "live", i |-> 2, k |-> 1],
     [src |-> "live", i |-> 1, k |-> None]}

RebuildWorlds == UNION {[1..n -> RebuildItems] : n \in 0..2}

\* A session over a merger: the child's get_data raises when an entry is no
\* dict with the distribution key.
DistributedSessionConfig ==
    MergerViewSession("merger_view_session_example", 3, 300,
        MergerAppendDistribute("merger_distribute_example",
            <<Leaf("subfeed_merger_view_session_example", "live")>>, "k", "", FALSE),
        FALSE, "", FALSE)

RebuildInit ==
    /\ cfg \in {DedupConfig("k"), DedupConfig(""), DistributedSessionConfig}
    /\ req = NoReq
    /\ res = NoRes
    /\ cursor = EmptyDict
    /\ hist = [calls |-> 0, before |-> EmptyDict]
    /\ redis = EmptyDict
    /\ world \in RebuildWorlds
    /\ stale = {}
    /\ pc = "idle"
    /\ loc = NoLoc

\* get_data with an empty cursor, run without interruption.
Rebuild ==
    /\ hist.calls < 2
    /\ \E limit \in 1..MaxLimit, rc \in {"sync", "async"} :
        /\ req' = Request("rebuild", "x", limit, EmptyDict, rc, EmptyDict, 0)
        /\ res' = Serve(cfg, req', redis)
        /\ redis' = res'.cache
        /\ hist' = [calls |-> hist.calls + 1, before |-> redis]
        /\ UNCHANGED <<cfg, cursor, world, stale, pc, loc>>

\* The host's source holds other entries.
SourceChanges ==
    /\ hist.calls = 1
    /\ req.kind = "rebuild"
    /\ \E w \in RebuildWorlds :
        /\ w # world
        /\ world' = w
    /\ req' = [req EXCEPT !.kind = "changed"]
    /\ UNCHANGED <<cfg, res, cursor, hist, redis, stale, pc, loc>>

RebuildNext == Rebuild \/ SourceChanges

SpecRebuild == RebuildInit /\ [][RebuildNext]_vars

\* Materializing the session failed: the child's get_data raised, or
\* deduplication by dedup_key met an item that has no value for the key.
MaterializeFailed ==
    /\ Len(RootInvocations) = 1
    /\ \/ RootInvocations[1].err # ""
       \/ /\ cfg.deduplicate /\ cfg.dedup_key # ""
          /\ \E a \in 1..Len(RootInvocations[1].data) :
                \/ cfg.dedup_key \notin DictKeys(RootInvocations[1].data[a])
                \/ RootInvocations[1].data[a][cfg.dedup_key] = None

\* C24: when materializing a view session fails (the child's get_data raises,
\* or deduplication meets an item that has no value for dedup_key) the call
\* raises, and a call that raises leaves the store as it was before the
\* call: no SET is issued.
C24_FailedBuildLeavesCache ==
    req.kind = "rebuild"
    => /\ MaterializeFailed => res.err # ""
       /\ res.err # "" => redis = hist.before

\* The first call stored a session; the source changed; the second call met
\* an item without a value for dedup_key, raised AssertionError and left the
\* first call's session in the store.
C24_Witness ==
    /\ req.kind = "rebuild"
    /\ hist.calls = 2
    /\ cfg.deduplicate /\ cfg.dedup_key = "k"
    /\ res.err = "AssertionError"
    /\ RedisExists(hist.before, CacheKey(cfg, "x", EmptyDict))
    /\ RedisExists(redis, CacheKey(cfg, "x", EmptyDict))
    /\ JsonLoads(RedisGet(redis, CacheKey(cfg, "x", EmptyDict))) # world

\* C25: a call whose cursor has an entry for merger_id does not fail when the
\* key, found by EXISTS, has expired by the time of GET: it serves a window
\* or builds the session again.
C25_SurvivesExpiryBetweenExistsAndGet ==
    (SessionReturned /\ cfg.merger_id \in DOMAIN req.next_page /\ loc.exists
        /\ ~RedisExists(res.cache, loc.cache_key))
    => res.err = ""

(***************************************************************************)
(* SpecKeys: get_data calls of one MergerViewSession on a shared Redis for *)
(* several users, with and without custom_view_session_key, each with an   *)
(* empty cursor or the cursor of a second page.  hist holds, for every key *)
(* in the store, the (merger_id, user_id, custom_view_session_key) of the  *)
(* call that wrote it.                                                     *)
(***************************************************************************)
SessionUsers == {"u", "u_k"}

KeysInit ==
    /\ cfg = ViewSessionConfig
    /\ req = NoReq
    /\ res = NoRes
    /\ cursor = EmptyDict
    /\ hist = [calls |-> 0, owner |-> EmptyDict]
    /\ redis = EmptyDict
    /\ world = <<>>
    /\ stale = {}
    /\ pc = "idle"
    /\ loc = NoLoc

\* get_data for a user, run without interruption; the call that built the
\* session (it invoked the child) wrote the key.
ServeUser ==
    /\ hist.calls < MaxCalls
    /\ \E user_id \in SessionUsers, key \in SessionKeys, limit \in 1..MaxLimit,
          next_page \in {EmptyDict, (cfg.merger_id :> FeedResultNextPageInside(2, None))} :
        /\ req' = Request("keys", user_id, limit, next_page, "sync", SessionParams(key), 0)
        /\ res' = Serve(cfg, req', redis)
        /\ redis' = res'.cache
        /\ hist' = [calls |-> hist.calls + 1,
                    owner |-> IF res'.err = "" /\ res'.trace # <<>>
                              THEN Update(hist.owner,
                                       CacheKey(cfg, user_id, SessionParams(key))
                                           :> <<cfg.merger_id, user_id, key>>)
                              ELSE hist.owner]
        /\ UNCHANGED <<cfg, cursor, world, stale, pc, loc>>

SpecKeys == KeysInit /\ [][ServeUser]_vars

\* C26: the session a call is served was written by a call with the same
\* (merger_id, user_id, custom_view_session_key): calls whose triples differ
\* use different keys.
C26_SessionServedToItsOwner ==
    (req.kind = "keys" /\ res.err = "")
    => hist.owner[CacheKey(cfg, req.user_id, req.params)]
         = <<cfg.merger_id, req.user_id,
             IF "custom_view_session_key" \in DOMAIN req.params
             THEN req.params["custom_view_session_key"] ELSE "">>

(***************************************************************************)
(* SpecNested: paginating trees that hold a MergerViewSession below every  *)
(* kind of merger, another MergerViewSession included, with and without a  *)
(* Redis client.                                                           *)
(***************************************************************************)
InnerSession ==
    MergerViewSession("merger_view_session_inner", 4, 300,
        Leaf("subfeed_merger_view_session_example", "followings"), FALSE, "", FALSE)

NestedSessionConfigs ==
    {MergerAppend("merger_append_example",
         <<InnerSession, Leaf("subfeed_2_merger_append_example", "ads")>>, FALSE),
     MergerAppendDistribute("merger_distribute_example",
         <<MergerViewSession("merger_view_session_inner", 4, 300,
               Leaf("subfeed_merger_distribute_example", "keys"), FALSE, "", FALSE)>>,
         "user_id", "value", TRUE),
     MergerPositional("merger_positional_example", <<1, 3>>, NoInt, NoInt, NoInt,
         Leaf("subfeed_positional_merger_positional_example", "ads"), InnerSession),
     MergerPercentage("merger_percentage_example",
         <<MergerPercentageItem(40, InnerSession),
           MergerPercentageItem(60, Leaf("subfeed_2_merger_percentage_example", "ads"))>>,
         FALSE),
     MergerPercentageGradient("merger_percentage_gradient_example",
         MergerPercentageItem(80, Leaf("subfeed_from_merger_percentage_gradient_example",
                                       "ads")),
         MergerPercentageItem(20, InnerSession), 40, 2, FALSE),
     MergerViewSession("merger_view_session_example", 4, 300, InnerSession, FALSE, "", FALSE),
     MergerViewSession("merger_view_session_example", 4, 300,
         MergerAppend("merger_append_example",
             <<Leaf("subfeed_merger_append_example", "ads"), InnerSession>>, FALSE),
         FALSE, "", FALSE)}

SpecNested == FeedInitOver(NestedSessionConfigs) /\ [][GetPage]_vars

\* The nodes a node invokes.
Children(node) ==
    CASE node.type \in {"merger_append", "merger_distribute"} -> node.items
      [] node.type = "merger_positional" -> <<node.default, node.positional>>
      [] node.type = "merger_percentage" ->
            [k \in 1..Len(node.items) |-> node.items[k].data]
      [] node.type = "merger_percentage_gradient" ->
            <<node.item_from.data, node.item_to.data>>
      [] node.type = "merger_view_session" -> <<node.data>>
      [] OTHER -> <<>>

\* The ids of the view-session nodes of a tree.
RECURSIVE SessionIds(_)
SessionIds(node) ==
    (IF node.type = "merger_view_session" THEN {node.merger_id} ELSE {})
        \cup UNION {SessionIds(Children(node)[k]) : k \in 1..Len(Children(node))}

\* C27: when get_data is given a Redis client, every view-session node it
\* reaches, at any depth, is invoked with that client, and neither it nor the
\* call fails with the ValueError of a missing client.
C27_SessionsGetTheClient ==
    (req.kind = "page" /\ req.redis_client # "none")
    => /\ res.err # "ValueError"
       /\ \A k \in 1..Len(res.trace) :
             res.trace[k].node \in SessionIds(cfg)
             => /\ res.trace[k].redis_client = req.redis_client
                /\ res.trace[k].err # "ValueError"

(***************************************************************************)
(* The cursor object a call is given (schemas.py 413-443, 519-531,         *)
(* 1033-1054).                                                             *)
(***************************************************************************)
\* The cursor object the node that made the invocation e had been given.
GivenTo(e) ==
    IF e.parent = NodeId(cfg) THEN req.next_page
    ELSE LET up == SelectSeq(res.trace, LAMBDA f : f.node = e.parent)
         IN  IF up = <<>> THEN req.next_page ELSE up[1].next_page

PositionalPage ==
    /\ Len(hist) < MaxPage
    /\ Len(hist) = 0 \/ (res.err = "" /\ res.has_next_page)
    /\ \E limit \in (IF Len(hist) = 0 THEN 1..MaxLimit ELSE {req.limit}) :
        /\ req' = Request("page", "x", limit, cursor, "none", EmptyDict, 0)
        /\ res' = Serve(cfg, req', redis)
        /\ cursor' = IF res'.err = "" THEN res'.next_page ELSE cursor
        /\ hist' = Append(hist,
              [page |-> CursorEntry(cursor, cfg.merger_id).page,
               page_positions |->
                   PagePositions(cfg, CursorEntry(cursor, cfg.merger_id).page, limit),
               asked |-> LET pos == SelectSeq(res'.trace,
                                      LAMBDA e : e.node = NodeId(cfg.positional))
                         IN  IF pos = <<>> THEN NoInt ELSE pos[1].limit])
        /\ UNCHANGED <<cfg, redis, world, stale, pc, loc>>

SpecPositionalPages == PositionalInit /\ [][PositionalPage]_vars

\* The configured positions: positions and range(start, end, step).
ConfiguredPositions(self) ==
    self.positions
    \o (IF HasRange(self) THEN PyRange(self.start, self.end, self.step) ELSE <<>>)

\* The calls so far that counted the position p in their page_positions.
PagesCounting(p) ==
    {j \in 1..Len(hist) :
        \E k \in 1..Len(hist[j].page_positions) :
            (hist[j].page - 1) * req.limit + hist[j].page_positions[k] = p}

\* C29: paging from page 1 with a fixed limit >= 1, every page-relative
\* position of a call lies in 1..limit, the positional child is asked for one
\* item per counted position, no configured position is counted by two calls
\* and every configured position up to the end of the last page served has
\* been counted by one.
C29_EachPositionOnOnePage ==
    (req.kind = "page" /\ res.err = "")
    => /\ \A j \in 1..Len(hist) :
            /\ hist[j].page = j
            /\ hist[j].asked = Len(hist[j].page_positions)
            /\ \A k \in 1..Len(hist[j].page_positions) :
                  hist[j].page_positions[k] \in 1..req.limit
       /\ \A n \in 1..Len(ConfiguredPositions(cfg)) :
            LET p == ConfiguredPositions(cfg)[n]
            IN  /\ Cardinality(PagesCounting(p)) <= 1
                /\ p <= Len(hist) * req.limit => Cardinality(PagesCounting(p)) = 1

(***************************************************************************)
(* SpecAppendPages: a client pages through a MergerAppend of two subfeeds  *)
(* from an empty cursor with one limit >= 1 and stops at the first call    *)
(* that reports has_next_page = False; hist keeps the number of calls and, *)
(* for every child invoked so far, the has_next_page of its last           *)
(* invocation.                                                             *)
(***************************************************************************)
AppendPagesMethods == {"ads", "followings", "empty", "doubles"}

AppendPagesConfigs ==
    {MergerAppend("merger_append_example",
        <<Capped("subfeed_merger_append_example", m1, c),
          Leaf("subfeed_2_merger_append_example", m2)>>, FALSE) :
        m1 \in AppendPagesMethods, m2 \in AppendPagesMethods, c \in {0, 1}}

AppendPagesInit ==
    /\ cfg \in AppendPagesConfigs
    /\ req = NoReq
    /\ res = NoRes
    /\ cursor = EmptyDict
    /\ hist = [calls |-> 0, reported |-> EmptyDict]
    /\ redis = EmptyDict
    /\ world = <<>>
    /\ stale = {}
    /\ pc = "idle"
    /\ loc = NoLoc

\* has_next_page of every child a call invoked, by the child's id.
ReportedBy(trace) ==
    [id \in {trace[k].node : k \in 1..Len(trace)} |->
        \E k \in 1..Len(trace) : trace[k].node = id /\ trace[k].has_next_page]

AppendPage ==
    /\ hist.calls < MaxCalls
    /\ hist.calls = 0 \/ (res.err = "" /\ res.has_next_page)
    /\ \E limit \in (IF hist.calls = 0 THEN 1..MaxLimit ELSE {req.limit}) :
        /\ req' = Request("page", "x", limit, cursor, "none", EmptyDict, 0)
        /\ res' = Serve(cfg, req', redis)
        /\ cursor' = IF res'.err = "" THEN res'.next_page ELSE cursor
        /\ hist' = [calls |-> hist.calls + 1,
                    reported |-> Update(hist.reported, ReportedBy(res'.trace))]
        /\ UNCHANGED <<cfg, redis, world, stale, pc, loc>>

SpecAppendPages == AppendPagesInit /\ [][AppendPage]_vars

\* What the child would deliver if it were asked for one item with the cursor
\* the client holds.
StillDelivers(child) ==
    GetData(child, 1, cursor, Ctx("x", "none", EmptyDict, 0), redis).data # <<>>

====
